---- MODULE Spec2Model ----
(***************************************************************************)
(* State-machine model of five pieces of xapian-core:                      *)
(*   - MultiAndPostList, the N-way AND posting-list combinator             *)
(*     (src/unnamed/part_001, lines 30-227);                               *)
(*   - HoneyCursor, the cursor over a honey table                          *)
(*     (src/xapian-core/backends/honey/honey_cursor.cc);                   *)
(*   - Registry, the name -> object maps of user subclasses                *)
(*     (src/unnamed/part_001, lines 229-607);                              *)
(*   - OmWritableDatabase, the locked handle of a writable database        *)
(*     (src/unnamed/part_001, lines 609-893);                              *)
(*   - PL2PlusWeight, the PL2+ weighting scheme (src/unnamed/part_000).    *)
(* The child posting lists of the AND node and the writer of the honey    *)
(* table are not part of the sources; they are modelled from their         *)
(* documented contract and marked so where they are defined.               *)
(***************************************************************************)
EXTENDS Integers, Sequences, FiniteSets, TLC

VARIABLES
    \* ---- MultiAndPostList ----
    plist,          \* plist[0..n_kids-1]: the children (docs, did, at_end, valid)
    did,            \* current docid of the AND node, 0 = at end / not started
    max_wt,         \* max_wt[i]: cached maxweight of child i
    max_total,      \* sum of the cached maxweights
    kid_max,        \* what child i's recalc_maxweight() returned last
    pc,             \* position inside next()/skip_to(): "idle", "advanced_plist0", "loop"
    scan_i,         \* loop variable i of find_next_match
    w_min,          \* the advisory minimum weight of the running call
    started,        \* next() or skip_to() has been called at least once
    prev_did,       \* did when the running (or last) call was made
    last_call,      \* "none", "next", "skip_to": the running (or last) call
    last_min,       \* did_min of the last skip_to call
    emitted,        \* docids returned since construction, while only next() was used
    only_next,      \* no skip_to() call was made so far
    recalced,       \* recalc_maxweight() has been called on the AND node
    kid_recalcs,    \* kid_recalcs[i]: child recalc calls made by the last AND recalc
    last_weight,    \* result of the last get_weight() call, -1 = none since the last move
    deleted,        \* the children the destructor deleted, in the order it did
    freed,          \* the arrays the destructor freed, in the order it did
    \* ---- HoneyCursor ----
    fh,             \* the table file: [data: its bytes, root: offset of the root index]
    table,          \* the sorted keys the file was written from
    cursor,         \* the cursor's fields (pos is the file position of fh)
    op,             \* the last cursor operation: "none", "rewind", "next", ...
    ret,            \* what the last cursor operation returned
    arg,            \* the key of the last find
    pre_key,        \* current_key before the last prev(); the key the last find
                    \* stepped forward from, if it skipped the index
    pre_end,        \* is_at_end before the last prev()
    scanning,       \* only next() and read_tag() were called since the last rewind
    trail,          \* the keys next() moved to since the last rewind, while scanning
    \* ---- three cursors over one table written with the three index types ----
    trio_keys,      \* the sorted keys of the table
    trio_fh,        \* trio_fh[t]: the file with root index type t
    trio,           \* trio[t]: the cursor over trio_fh[t]
    trio_ret,       \* trio_ret[t]: what the last operation returned on trio[t]
    trio_op,        \* the last operation, made on all three cursors
    \* ---- Registry ----
    reg,            \* reg[cat]: the map of category cat, name -> object (0 = NULL)
    origin,         \* origin[o]: the registration call object o came from (0 = built in)
    released,       \* released[o]: how often the registry deleted / released object o
    next_id,        \* the next object to be allocated
    reg_calls,      \* registration calls made so far
    latest,         \* latest[cat]: name -> the last registration call that succeeded
    nulled,         \* nulled[cat]: names whose last registration failed in clone()
    reg_op,         \* the last registry operation: "none", "register", "lookup"
    reg_cat,        \* its category
    reg_name,       \* its name
    reg_err,        \* the error it threw, "none" if it returned
    reg_result,     \* what the last lookup returned (0 = NULL)
    reg_before,     \* reg before the last operation
    released_before, \* released before the last operation
    \* ---- OmWritableDatabase handles ----
    mydb,           \* mydb[h]: the database handle h's internal pointer refers to
    mutex,          \* mutex[h]: the thread that holds handle h's mutex, or "free"
    th,             \* th[t]: thread t's call in progress (pc, op, handle, source,
                    \* local pointer "database", error of its last call, the
                    \* document given and the documents passed to the database)
    destroyed,      \* the databases whose last reference has been dropped
    \* ---- PL2PlusWeight ----
    pl2_stats,      \* the statistics the Weight base class hands to the scheme
    pl2_wt,         \* the scheme object: param_c, param_delta and what init() cached
    pl2_call        \* the last call made on it: op, arguments, result, error

and_vars == <<plist, did, max_wt, max_total, kid_max, pc, scan_i, w_min, started,
              prev_did, last_call, last_min, emitted, only_next, recalced,
              kid_recalcs, last_weight, deleted, freed>>

cursor_vars == <<fh, table, cursor, op, ret, arg, pre_key, pre_end, scanning, trail>>

trio_vars == <<trio_keys, trio_fh, trio, trio_ret, trio_op>>

registry_vars == <<reg, origin, released, next_id, reg_calls, latest, nulled, reg_op,
                   reg_cat, reg_name, reg_err, reg_result, reg_before, released_before>>

db_vars == <<mydb, mutex, th, destroyed>>

pl2_vars == <<pl2_stats, pl2_wt, pl2_call>>

vars == <<and_vars, cursor_vars, trio_vars, registry_vars, db_vars, pl2_vars>>

\* What the operations of each part leave alone.
not_and_vars == <<cursor_vars, trio_vars, registry_vars, db_vars, pl2_vars>>
not_cursor_vars == <<and_vars, trio_vars, registry_vars, db_vars, pl2_vars>>
not_trio_vars == <<and_vars, cursor_vars, registry_vars, db_vars, pl2_vars>>
not_registry_vars == <<and_vars, cursor_vars, trio_vars, db_vars, pl2_vars>>
not_db_vars == <<and_vars, cursor_vars, trio_vars, registry_vars, pl2_vars>>
not_pl2_vars == <<and_vars, cursor_vars, trio_vars, registry_vars, db_vars>>

----------------------------------------------------------------------------
(* Bounds of the model *)

\* Documents are numbered 1..MaxDoc.
MaxDoc == 3

\* Weights are naturals 0..MaxWt.
MaxWt == 2

\* A table holds at most MaxEntries entries.
MaxEntries == 3

\* At most MaxRegs registration calls are made on a registry.
MaxRegs == 3

\* Numbers of children tried for the AND node.
KidCounts == {2, 3}

Docids == 1..MaxDoc
Weights == 0..MaxWt

Max(a, b) == IF a >= b THEN a ELSE b
Min(a, b) == IF a <= b THEN a ELSE b

RECURSIVE SumTo(_, _)
\* f[0] + ... + f[n-1]
SumTo(f, n) == IF n = 0 THEN 0 ELSE SumTo(f, n - 1) + f[n - 1]

----------------------------------------------------------------------------
(* Child posting lists: the PostList contract of the children              *)

\* A child that has not been moved yet.
KidInit(ds) == [docs |-> ds, did |-> 0, at_end |-> FALSE, valid |-> TRUE]

\* Position child k on its first document >= lo, or at end.
KidMoveTo(k, lo) ==
    LET c == {d \in k.docs : d >= lo}
    IN  IF c = {}
        THEN [k EXCEPT !.did = 0, !.at_end = TRUE, !.valid = TRUE]
        ELSE [k EXCEPT !.did = CHOOSE d \in c : \A e \in c : d <= e,
                       !.at_end = FALSE, !.valid = TRUE]

\* PostList::next(w_min): a conservative child ignores w_min.  After a check()
\* that reported "not valid" for docid c (did = c, valid = FALSE) next() goes to
\* the first document after c.
KidNext(k, w) == KidMoveTo(k, k.did + 1)

\* PostList::skip_to(did_min, w_min): never moves backwards.
KidSkipTo(k, did_min, w) ==
    IF k.valid
    THEN IF k.at_end \/ k.did >= did_min THEN k ELSE KidMoveTo(k, did_min)
    ELSE KidMoveTo(k, Max(did_min, k.did + 1))

\* PostList::check(did_min, w_min, valid): either acts as skip_to() (valid), or,
\* when the child can tell cheaply that did_min is not in it (lazy), reports
\* "not valid" and leaves its position unspecified.
KidCheck(k, did_min, w, lazy) ==
    IF lazy /\ did_min \notin k.docs /\ ~k.at_end /\ did_min > k.did
    THEN [k EXCEPT !.did = did_min, !.valid = FALSE]
    ELSE KidSkipTo(k, did_min, w)

----------------------------------------------------------------------------
(* MultiAndPostList                                                         *)

n_kids == Cardinality(DOMAIN plist)
Kids == DOMAIN plist

\* new_min(): the minimum weight child n must reach given the others' maxima.
new_min(w, n) == w - (max_total - max_wt[n])

\* A next_helper that leaves the child where it is.
next_helper_stays(pl, n, w) == pl

next_helper(pl, n, w) == [pl EXCEPT ![n] = KidNext(pl[n], new_min(w, n))]

\* A skip_to_helper that asks the child for a docid above did_min.
skip_to_helper_past(pl, n, did_min, w) ==
    [pl EXCEPT ![n] = KidSkipTo(pl[n], did_min + 1, new_min(w, n))]

skip_to_helper(pl, n, did_min, w) ==
    [pl EXCEPT ![n] = KidSkipTo(pl[n], did_min, new_min(w, n))]

check_helper(pl, n, did_min, w, lazy) ==
    [pl EXCEPT ![n] = KidCheck(pl[n], did_min, new_min(w, n), lazy)]

\* at_end()
at_end == did = 0

\* The AND node after construction over children with the given docid sets.
AndInit(dss) ==
    /\ plist = [n \in 0..(Len(dss) - 1) |-> KidInit(dss[n + 1])]
    /\ did = 0
    /\ max_wt = [n \in 0..(Len(dss) - 1) |-> 0]
    /\ max_total = 0
    /\ kid_max = [n \in 0..(Len(dss) - 1) |-> MaxWt]
    /\ pc = "idle"
    /\ scan_i = 0
    /\ w_min = 0
    /\ started = FALSE
    /\ prev_did = 0
    /\ last_call = "none"
    /\ last_min = 0
    /\ emitted = {}
    /\ only_next = TRUE
    /\ recalced = FALSE
    /\ kid_recalcs = [n \in 0..(Len(dss) - 1) |-> 0]
    /\ last_weight = -1
    /\ deleted = <<>>
    /\ freed = <<>>

weight_vars == <<max_wt, max_total, kid_max, recalced, kid_recalcs>>

\* find_next_match() returns with the node on docid d (0: at end).
Return(d) ==
    /\ did' = d
    /\ pc' = "idle"
    /\ scan_i' = 0
    /\ w_min' = 0
    /\ emitted' = IF only_next /\ d # 0 THEN emitted \cup {d} ELSE emitted

\* A next() that goes straight to find_next_match.
NextMoveStays(pl, w) == pl

\* next(w_min), first statement: next_helper(0, w_min).
NextMove(pl, w) == next_helper(pl, 0, w)

\* next(w_min): next_helper(0, w_min), then find_next_match(w_min).
AndNext(w) ==
    /\ UNCHANGED not_and_vars
    /\ freed = <<>>
    /\ UNCHANGED <<deleted, freed>>
    /\ pc = "idle"
    /\ ~(started /\ at_end)
    /\ plist' = NextMove(plist, w)
    /\ pc' = "advanced_plist0"
    /\ w_min' = w
    /\ started' = TRUE
    /\ prev_did' = did
    /\ last_call' = "next"
    /\ last_weight' = -1
    /\ UNCHANGED <<did, scan_i, last_min, emitted, only_next, weight_vars>>

\* skip_to(did_min, w_min): skip_to_helper(0, did_min, w_min), then find_next_match.
AndSkipTo(did_min, w) ==
    /\ UNCHANGED not_and_vars
    /\ freed = <<>>
    /\ UNCHANGED <<deleted, freed>>
    /\ pc = "idle"
    /\ ~(started /\ at_end)
    /\ plist' = skip_to_helper(plist, 0, did_min, w)
    /\ pc' = "advanced_plist0"
    /\ w_min' = w
    /\ started' = TRUE
    /\ prev_did' = did
    /\ last_call' = "skip_to"
    /\ last_min' = did_min
    /\ only_next' = FALSE
    /\ emitted' = {}
    /\ last_weight' = -1
    /\ UNCHANGED <<did, scan_i, weight_vars>>

\* find_next_match, label advanced_plist0: child 0 at end ends the node,
\* otherwise its docid is the candidate and the scan of children 1.. starts.
ScanTop ==
    /\ UNCHANGED not_and_vars
    /\ freed = <<>>
    /\ UNCHANGED <<deleted, freed>>
    /\ pc = "advanced_plist0"
    /\ IF plist[0].at_end
       THEN /\ Return(0)
            /\ UNCHANGED plist
       ELSE /\ did' = plist[0].did
            /\ scan_i' = 1
            /\ pc' = "loop"
            /\ UNCHANGED <<plist, w_min, emitted>>
    /\ UNCHANGED <<started, prev_did, last_call, last_min, only_next, last_weight,
                   weight_vars>>

\* A comparison that only restarts when the child is behind the candidate.
DiffersOnlyBehind(new_did, d) == new_did < d

\* A comparison that never restarts.
DiffersNever(new_did, d) == FALSE

\* A comparison that always restarts.
DiffersAlways(new_did, d) == TRUE

\* find_next_match: "if (new_did != did)".
Differs(new_did, d) == new_did # d

\* find_next_match, one iteration of the for loop (or its exit).
ScanStep ==
    /\ UNCHANGED not_and_vars
    /\ freed = <<>>
    /\ UNCHANGED <<deleted, freed>>
    /\ pc = "loop"
    /\ IF scan_i >= n_kids
       THEN /\ Return(did)
            /\ UNCHANGED plist
       ELSE \E lazy \in BOOLEAN :
            LET checked == check_helper(plist, scan_i, did, w_min, lazy)
                kid == checked[scan_i]
            IN  IF ~kid.valid
                THEN /\ plist' = next_helper(checked, 0, w_min)
                     /\ pc' = "advanced_plist0"
                     /\ UNCHANGED <<did, scan_i, w_min, emitted>>
                ELSE IF kid.at_end
                THEN /\ plist' = checked
                     /\ Return(0)
                ELSE IF Differs(kid.did, did)
                THEN /\ plist' = skip_to_helper(checked, 0, kid.did, w_min)
                     /\ pc' = "advanced_plist0"
                     /\ UNCHANGED <<did, scan_i, w_min, emitted>>
                ELSE /\ plist' = checked
                     /\ scan_i' = scan_i + 1
                     /\ UNCHANGED <<did, pc, w_min, emitted>>
    /\ UNCHANGED <<started, prev_did, last_call, last_min, only_next, last_weight,
                   weight_vars>>

RECURSIVE DeleteLoop(_, _)
\* ~MultiAndPostList(), the loop from child i on: "delete plist[i]".
DeleteLoop(i, n) ==
    IF i >= n THEN <<>> ELSE <<i>> \o DeleteLoop(i + 1, n)

\* ~MultiAndPostList(): the children are deleted, then the array plist and
\* the array max_wt.  The node is not used afterwards.
AndDestroy ==
    /\ UNCHANGED not_and_vars
    /\ pc = "idle"
    /\ freed = <<>>
    /\ deleted' = DeleteLoop(0, n_kids)
    /\ freed' = <<"plist", "max_wt">>
    /\ UNCHANGED <<plist, did, pc, scan_i, w_min, started, prev_did, last_call,
                   last_min, emitted, only_next, last_weight, weight_vars>>

RECURSIVE RecalcLoop(_, _, _)
\* recalc_maxweight(), the loop from child i on: st = [max_wt, max_total, calls],
\* r[i] is what child i's recalc_maxweight() returns.
RecalcLoop(i, st, r) ==
    IF i >= Cardinality(DOMAIN r)
    THEN st
    ELSE RecalcLoop(i + 1,
                    [max_wt |-> [st.max_wt EXCEPT ![i] = r[i]],
                     max_total |-> st.max_total + r[i],
                     calls |-> [st.calls EXCEPT ![i] = @ + 1]],
                    r)

NoCalls(r) == [n \in DOMAIN r |-> 0]

\* A recalc_maxweight() that never resets max_total.
RecalcKeepsTotal(mw, mt, r) ==
    RecalcLoop(0, [max_wt |-> mw, max_total |-> mt, calls |-> NoCalls(r)], r)

\* A recalc_maxweight() whose loop starts at child 1.
RecalcSkipsFirst(mw, mt, r) ==
    RecalcLoop(1, [max_wt |-> mw, max_total |-> 0, calls |-> NoCalls(r)], r)

\* A recalc_maxweight() that sums the children's results but caches the first
\* child's result for every child.
RecalcCachesFirst(mw, mt, r) ==
    [RecalcLoop(0, [max_wt |-> mw, max_total |-> 0, calls |-> NoCalls(r)], r)
        EXCEPT !.max_wt = [n \in DOMAIN r |-> r[0]]]

\* recalc_maxweight(): max_total = 0 (whatever it was, mt), then the loop over
\* all children.
RecalcMaxweight(mw, mt, r) ==
    RecalcLoop(0, [max_wt |-> mw, max_total |-> 0, calls |-> NoCalls(r)], r)

\* recalc_maxweight() on the AND node.  A child's maxweight never increases.
AndRecalc ==
    /\ UNCHANGED not_and_vars
    /\ freed = <<>>
    /\ UNCHANGED <<deleted, freed>>
    /\ pc = "idle"
    /\ \E r \in [Kids -> Weights] :
        /\ \A n \in Kids : r[n] <= kid_max[n]
        /\ LET st == RecalcMaxweight(max_wt, max_total, r)
           IN  /\ max_wt' = st.max_wt
               /\ max_total' = st.max_total
               /\ kid_recalcs' = st.calls
        /\ kid_max' = r
    /\ recalced' = TRUE
    /\ last_weight' = -1
    /\ UNCHANGED <<plist, did, pc, scan_i, w_min, started, prev_did, last_call,
                   last_min, emitted, only_next>>

RECURSIVE WeightLoop(_, _, _)
\* get_weight(), the loop from child i on; w[i] is child i's get_weight().
WeightLoop(i, result, w) ==
    IF i >= Cardinality(DOMAIN w) THEN result
    ELSE WeightLoop(i + 1, result + w[i], w)

GetWeight(w) == WeightLoop(0, 0, w)

\* get_weight() on the AND node (Assert(did)); each child's weight is at most
\* the maxweight that child reported last.
AndGetWeight ==
    /\ UNCHANGED not_and_vars
    /\ freed = <<>>
    /\ UNCHANGED <<deleted, freed>>
    /\ pc = "idle"
    /\ did # 0
    /\ \E w \in [Kids -> Weights] :
        /\ \A n \in Kids : w[n] <= kid_max[n]
        /\ last_weight' = GetWeight(w)
    /\ UNCHANGED <<plist, did, pc, scan_i, w_min, started, prev_did, last_call,
                   last_min, emitted, only_next, weight_vars>>

----------------------------------------------------------------------------
(* Byte strings                                                             *)

\* What BufferedFile::read() returns at the end of the file.
EOF == -1

RECURSIVE Compare(_, _)
\* std::string::compare: bytes compared as unsigned, a proper prefix sorts first.
Compare(a, b) ==
    IF a = <<>> THEN (IF b = <<>> THEN 0 ELSE -1)
    ELSE IF b = <<>> THEN 1
    ELSE IF Head(a) < Head(b) THEN -1
    ELSE IF Head(a) > Head(b) THEN 1
    ELSE Compare(Tail(a), Tail(b))

RECURSIVE common_prefix_length(_, _)
common_prefix_length(a, b) ==
    IF a = <<>> \/ b = <<>> \/ Head(a) # Head(b) THEN 0
    ELSE 1 + common_prefix_length(Tail(a), Tail(b))

\* s.substr(0, n) / s.assign(t, 0, n): at most n bytes from the front.
Prefix(sq, n) == SubSeq(sq, 1, Min(n, Len(sq)))

\* The bytes of sq after the first n.
Suffix(sq, n) == SubSeq(sq, n + 1, Len(sq))

\* s.resize(n): cut, or padded with NUL bytes.
Resize(sq, n) == [j \in 1..n |-> IF j <= Len(sq) THEN sq[j] ELSE 0]

RECURSIVE pack_uint(_)
\* pack_uint: 7 bits per byte, least significant first, the top bit set on all
\* but the last byte.
pack_uint(n) ==
    IF n < 128 THEN <<n>> ELSE <<128 + (n % 128)>> \o pack_uint(n \div 128)

RECURSIVE UnpackValue(_)
UnpackValue(bs) ==
    IF bs = <<>> THEN 0 ELSE (Head(bs) % 128) + 128 * UnpackValue(Tail(bs))

\* unpack_uint over exactly the bytes bs: fails unless bs ends in a byte < 128.
unpack_uint(bs) ==
    IF bs # <<>> /\ bs[Len(bs)] < 128
    THEN [ok |-> TRUE, value |-> UnpackValue(bs)]
    ELSE [ok |-> FALSE, value |-> 0]

\* A 32-bit offset, most significant byte first.
BE4(n) == <<(n \div 16777216) % 256, (n \div 65536) % 256, (n \div 256) % 256, n % 256>>

----------------------------------------------------------------------------
(* The honey table file, as HoneyTable::add and SSIndex write it           *)

\* Longest key of a honey table.
HONEY_MAX_KEY_LEN == 255

\* Width of a key in the binary chop index.
SSINDEX_BINARY_CHOP_KEY_SIZE == 4

\* The skiplist index gets an entry whenever the data offset enters a new block
\* of INDEXBLOCK bytes; the blocks are kept short so that small tables get
\* several index entries.
INDEXBLOCK == 8

\* The value stored under key k in the tables of this model.
Value(k) == Append(k, 7)

\* Whether the value of key k is stored compressed.
IsCompressed(k) == k[Len(k)] = 4

\* CompressionStream, abstractly: a length byte, then the bytes reversed and
\* complemented.
Compress(v) == <<Len(v)>> \o [j \in 1..Len(v) |-> 255 - v[Len(v) + 1 - j]]

\* decompress_chunk: ok is FALSE when decompression does not complete.
Decompress(z) ==
    IF z # <<>> /\ z[1] = Len(z) - 1
    THEN [ok |-> TRUE, data |-> [j \in 1..(Len(z) - 1) |-> 255 - z[Len(z) + 1 - j]]]
    ELSE [ok |-> FALSE, data |-> <<>>]

\* The bytes stored for key k's value.
Stored(k) == IF IsCompressed(k) THEN Compress(Value(k)) ELSE Value(k)

RECURSIVE WriteEntries(_, _, _)
\* HoneyTable::add for keys[j..]: lay = [data, starts, lens, ends] where for each
\* entry written so far starts is the offset of the entry, lens the offset of
\* its key-length byte and ends the offset just after its key bytes.
WriteEntries(keys, j, lay) ==
    IF j > Len(keys) THEN lay
    ELSE LET key == keys[j]
             at == Len(lay.data)
             reuse == IF j = 1 THEN 0 ELSE common_prefix_length(keys[j - 1], key)
             head == IF j = 1 THEN <<Len(key)>> \o key
                     ELSE <<reuse, Len(key) - reuse>> \o Suffix(key, reuse)
             val == Stored(key)
             enc == pack_uint(2 * Len(val) + (IF IsCompressed(key) THEN 1 ELSE 0))
         IN  WriteEntries(keys, j + 1,
                 [data |-> lay.data \o head \o enc \o val,
                  starts |-> Append(lay.starts, at),
                  lens |-> Append(lay.lens, IF j = 1 THEN at ELSE at + 1),
                  ends |-> Append(lay.ends, at + Len(head))])

Layout(keys) ==
    WriteEntries(keys, 1, [data |-> <<>>, starts |-> <<>>, lens |-> <<>>, ends |-> <<>>])

RECURSIVE Concat(_)
Concat(ss) == IF ss = <<>> THEN <<>> ELSE Head(ss) \o Concat(Tail(ss))

\* Index type 0x00: first byte of the first key, the range of first bytes, and
\* for every byte value in the range the offset of the first key starting with
\* it or a later byte (the offset of its key-length byte).
ArrayIndex(keys, lay) ==
    IF keys = <<>> THEN <<0, 0, 0>> \o BE4(0)
    ELSE LET first == keys[1][1]
             last == keys[Len(keys)][1]
             ptr(ch) == lay.lens[CHOOSE j \in 1..Len(keys) :
                                    /\ keys[j][1] >= ch
                                    /\ \A m \in 1..(j - 1) : keys[m][1] < ch]
         IN  <<0, first, last - first>>
             \o Concat([n \in 1..(last - first + 1) |-> BE4(ptr(first + n - 1))])

\* The key as the binary chop index holds it: cut to the key size, NUL padded.
ChopKey(key) == Resize(key, SSINDEX_BINARY_CHOP_KEY_SIZE)

\* Index type 0x01: the number of entries, then for every distinct cut key the
\* cut key and the offset of the first entry that has it.
BinaryChopIndex(keys, lay) ==
    LET pts == {j \in 1..Len(keys) : j = 1 \/ ChopKey(keys[j]) # ChopKey(keys[j - 1])}
        nth(n) == CHOOSE j \in pts : Cardinality({m \in pts : m < j}) = n - 1
    IN  <<1>> \o BE4(Cardinality(pts))
        \o Concat([n \in 1..Cardinality(pts) |->
                      ChopKey(keys[nth(n)]) \o BE4(lay.starts[nth(n)])])

RECURSIVE SkiplistEntries(_, _, _, _, _)
\* Index type 0x02, SSIndex::maybe_add_entry for keys[j..]: an entry (reuse,
\* length, suffix, offset just after the key) when the offset is in a new block.
SkiplistEntries(keys, lay, j, block, last_index_key) ==
    IF j > Len(keys) THEN <<>>
    ELSE LET key == keys[j]
             ptr == lay.ends[j]
             cur_block == ptr \div INDEXBLOCK
             reuse == common_prefix_length(last_index_key, key)
         IN  IF cur_block = block
             THEN SkiplistEntries(keys, lay, j + 1, block, last_index_key)
             ELSE <<reuse, Len(key) - reuse>> \o Suffix(key, reuse) \o pack_uint(ptr)
                  \o SkiplistEntries(keys, lay, j + 1, cur_block, key)

SkiplistIndex(keys, lay) == <<2>> \o SkiplistEntries(keys, lay, 1, 0, <<>>)

\* The file of a table with the given sorted keys and root index type.
BuildFile(keys, type) ==
    LET lay == Layout(keys)
        index == CASE type = 0 -> ArrayIndex(keys, lay)
                   [] type = 1 -> BinaryChopIndex(keys, lay)
                   [] OTHER -> SkiplistIndex(keys, lay)
    IN  [data |-> lay.data \o index, root |-> Len(lay.data)]

----------------------------------------------------------------------------
(* HoneyCursor                                                              *)

\* fh.read(): the byte at offset pos, or EOF.
FhRead(F, pos) == IF pos < Len(F.data) THEN F.data[pos + 1] ELSE EOF

\* fh.read(buf, n): the n bytes at offset pos (fewer at the end of the file).
FhReadN(F, pos, n) == SubSeq(F.data, pos + 1, Min(pos + n, Len(F.data)))

\* A cursor as constructed.
NewCursor ==
    [pos |-> 0, last_key |-> <<>>, current_key |-> <<>>, current_tag |-> <<>>,
     val_size |-> 0, current_compressed |-> FALSE, is_at_end |-> FALSE,
     err |-> "none", eof |-> "none"]

\* The result of an operation that throws or aborts.
Throw(c, what) == [c |-> [c EXCEPT !.err = what], ret |-> FALSE]

\* The result of an operation that throws because a read met the end of the
\* file; where names the part of the entry being read.
ThrowAtEof(c, what, where) == [c |-> [c EXCEPT !.err = what, !.eof = where], ret |-> FALSE]

\* rewind()
rewind(c) ==
    [c EXCEPT !.pos = 0, !.current_key = <<>>, !.last_key = <<>>,
              !.is_at_end = FALSE, !.val_size = 0]

RECURSIVE VarintBytes(_, _, _)
\* next_from_index, the read loop: up to n bytes from offset pos, stopping at
\* EOF or after the first byte below 128.
VarintBytes(F, pos, n) ==
    IF n = 0 \/ FhRead(F, pos) = EOF THEN <<>>
    ELSE IF FhRead(F, pos) < 128 THEN <<FhRead(F, pos)>>
    ELSE <<FhRead(F, pos)>> \o VarintBytes(F, pos + 1, n - 1)

next_from_index(F, c) ==
    LET buf == VarintBytes(F, c.pos, 8)
        u == unpack_uint(buf)
        c1 == [c EXCEPT !.pos = c.pos + Len(buf)]
        hit_eof == Len(buf) < 8 /\ FhRead(F, c.pos + Len(buf)) = EOF
                   /\ (buf = <<>> \/ buf[Len(buf)] >= 128)
    IN  IF ~u.ok
        THEN IF hit_eof THEN ThrowAtEof(c1, "DatabaseError", "val_size")
             ELSE Throw(c1, "DatabaseError")
        ELSE [c |-> [c1 EXCEPT !.current_compressed = (u.value % 2 = 1),
                               !.val_size = u.value \div 2,
                               !.current_tag = IF u.value \div 2 = 0 THEN <<>> ELSE @,
                               !.is_at_end = FALSE],
              ret |-> TRUE]

\* A key read that drops the bytes reused from the previous key.
ReadKeyNoReuse(F, c0) ==
    LET ch == FhRead(F, c0.pos)
        has_reuse == c0.last_key # <<>>
        ch2 == IF has_reuse THEN FhRead(F, c0.pos + 1) ELSE ch
        at == IF has_reuse THEN c0.pos + 2 ELSE c0.pos + 1
        buf == FhReadN(F, at, ch2)
    IN  next_from_index(F, [c0 EXCEPT !.pos = at + ch2, !.current_key = buf,
                                      !.last_key = buf])

\* next(), from "int ch = fh.read()" on: c0 is not at end, before the root and
\* has no unread value.
ReadKey(F, c0) ==
    LET ch == FhRead(F, c0.pos)
        has_reuse == c0.last_key # <<>>
        reuse == IF has_reuse THEN ch ELSE 0
        ch2 == IF has_reuse THEN FhRead(F, c0.pos + 1) ELSE ch
        at == IF has_reuse THEN c0.pos + 2 ELSE c0.pos + 1
        buf == FhReadN(F, at, ch2)
        key == Prefix(c0.last_key, reuse) \o buf
    IN  IF ch = EOF
        THEN ThrowAtEof(c0, "DatabaseCorruptError",
                        IF has_reuse THEN "reuse" ELSE "key_len")
        ELSE IF ch2 = EOF
        THEN ThrowAtEof([c0 EXCEPT !.pos = c0.pos + 1], "DatabaseError", "key_len")
        ELSE IF Len(buf) < ch2
        THEN ThrowAtEof([c0 EXCEPT !.pos = Len(F.data)], "DatabaseError", "key")
        ELSE next_from_index(F, [c0 EXCEPT !.pos = at + ch2, !.current_key = key,
                                           !.last_key = key])

\* next()
next(F, c) ==
    IF c.is_at_end THEN [c |-> c, ret |-> FALSE]
    ELSE LET c0 == IF c.val_size # 0
                   THEN [c EXCEPT !.pos = c.pos + c.val_size, !.val_size = 0]
                   ELSE c
         IN  IF c0.pos >= F.root
             THEN [c |-> [c0 EXCEPT !.is_at_end = TRUE], ret |-> FALSE]
             ELSE ReadKey(F, c0)

\* A read_tag that reads the value but still counts it as unread.
read_tag_keeps_size(F, c, keep_compressed) ==
    [c |-> [c EXCEPT !.current_tag = FhReadN(F, c.pos, c.val_size),
                     !.pos = c.pos + c.val_size],
     ret |-> c.current_compressed]

\* read_tag(keep_compressed); returns current_compressed.
read_tag(F, c, keep_compressed) ==
    LET c1 == IF c.val_size # 0
              THEN [c EXCEPT !.current_tag = FhReadN(F, c.pos, c.val_size),
                             !.pos = c.pos + c.val_size, !.val_size = 0]
              ELSE c
        d == Decompress(c1.current_tag)
    IN  IF ~keep_compressed /\ c1.current_compressed
        THEN IF ~d.ok THEN Throw(c1, "abort")
             ELSE [c |-> [c1 EXCEPT !.current_tag = d.data,
                                    !.current_compressed = FALSE],
                   ret |-> FALSE]
        ELSE [c |-> c1, ret |-> c1.current_compressed]

\* A final loop that stops after its first next().
StepOnce(F, c, key) ==
    LET n == next(F, c)
    IN  IF n.c.err # "none" \/ ~n.ret THEN [c |-> n.c, ret |-> FALSE]
        ELSE [c |-> n.c, ret |-> Compare(n.c.current_key, key) = 0]

RECURSIVE StepForward(_, _, _)
\* do_find, the final loop: next() until the key or the first greater key.
StepForward(F, c, key) ==
    LET n == next(F, c)
        cmp == Compare(n.c.current_key, key)
    IN  IF n.c.err # "none" \/ ~n.ret THEN [c |-> n.c, ret |-> FALSE]
        ELSE IF cmp = 0 THEN [c |-> n.c, ret |-> TRUE]
        ELSE IF cmp > 0 THEN [c |-> n.c, ret |-> FALSE]
        ELSE StepForward(F, n.c, key)

\* Four bytes at offset pos read as "fh.read() << 24 | ... | fh.read()".
ReadBE4(F, pos) ==
    FhRead(F, pos) * 16777216 + FhRead(F, pos + 1) * 65536
        + FhRead(F, pos + 2) * 256 + FhRead(F, pos + 3)

\* An index lookup that returns (done, with ret) or goes on to the final loop.
Seeked(c) == [c |-> c, done |-> FALSE, ret |-> FALSE]
Done(c, r) == [c |-> c, done |-> TRUE, ret |-> r]

\* An array lookup that leaves last_key as it was.
ArraySeekKeepsLastKey(F, c, key) ==
    LET base == FhRead(F, F.root + 1)
        first == (key[1] - base) % 256
        range == FhRead(F, F.root + 2)
        jump == ReadBE4(F, F.root + 3 + first * 4)
    IN  IF first > range
        THEN Done([c EXCEPT !.pos = F.root + 3, !.is_at_end = TRUE], FALSE)
        ELSE Seeked([c EXCEPT !.pos = jump])

\* do_find, case 0x00.
ArraySeek(F, c, key) ==
    LET base == FhRead(F, F.root + 1)
        first == (key[1] - base) % 256
        range == FhRead(F, F.root + 2)
        jump == ReadBE4(F, F.root + 3 + first * 4)
    IN  IF first > range
        THEN Done([c EXCEPT !.pos = F.root + 3, !.is_at_end = TRUE], FALSE)
        ELSE Seeked([c EXCEPT !.pos = jump, !.last_key = <<>>])

RECURSIVE StripNul(_)
\* "while (kkey_len > 0 && kkey[kkey_len - 1] == '\0') --kkey_len"
StripNul(kkey) ==
    IF kkey # <<>> /\ kkey[Len(kkey)] = 0 THEN StripNul(SubSeq(kkey, 1, Len(kkey) - 1))
    ELSE kkey

\* The index key of entry k of the binary chop index starting at base.
ChopEntryKey(F, base, k) ==
    StripNul(FhReadN(F, base + k * (SSINDEX_BINARY_CHOP_KEY_SIZE + 4),
                     SSINDEX_BINARY_CHOP_KEY_SIZE))

RECURSIVE Chop(_, _, _, _, _)
\* do_find, case 0x01, the loop "while (j - i > 1)": the entry to start from.
Chop(F, base, key, i, j) ==
    IF j - i <= 1 THEN i
    ELSE LET k == i + (j - i) \div 2
             r == Compare(Prefix(key, SSINDEX_BINARY_CHOP_KEY_SIZE),
                          ChopEntryKey(F, base, k))
         IN  IF r < 0 THEN Chop(F, base, key, i, k)
             ELSE IF r = 0 THEN k
             ELSE Chop(F, base, key, k, j)

\* do_find, case 0x01.
BinaryChopSeek(F, c, key) ==
    LET j == ReadBE4(F, F.root + 1)
        base == F.root + 5
        i == Chop(F, base, key, 0, j)
        kkey == ChopEntryKey(F, base, i)
        jump == ReadBE4(F, base + i * (SSINDEX_BINARY_CHOP_KEY_SIZE + 4)
                               + SSINDEX_BINARY_CHOP_KEY_SIZE)
    IN  IF j = 0
        THEN Done([c EXCEPT !.pos = base, !.is_at_end = TRUE], FALSE)
        ELSE Seeked([c EXCEPT !.pos = jump,
                              !.last_key = IF jump = 0 THEN <<>> ELSE kkey])

RECURSIVE SkiplistScan(_, _, _, _, _, _, _)
\* do_find, case 0x02, the loop over the index entries from offset pos:
\* the index key to start from, the offset after it in the data, and cmp0.
SkiplistScan(F, pos, key, index_key, prev_index_key, ptr, cmp0) ==
    LET reuse == FhRead(F, pos)
        len == FhRead(F, pos + 1)
        ik == [j \in 1..(reuse + len) |->
                  IF j <= reuse
                  THEN (IF j <= Len(index_key) THEN index_key[j] ELSE 0)
                  ELSE FhRead(F, pos + 1 + j - reuse)]
        cmp == Compare(ik, key)
        buf == VarintBytes(F, pos + 2 + len, 8)
        u == unpack_uint(buf)
    IN  IF reuse = EOF
        THEN [index_key |-> index_key, ptr |-> ptr, cmp0 |-> cmp0, err |-> "none"]
        ELSE IF len = EOF
        THEN [index_key |-> index_key, ptr |-> ptr, cmp0 |-> cmp0, err |-> "abort"]
        ELSE IF cmp > 0
        THEN [index_key |-> prev_index_key, ptr |-> ptr, cmp0 |-> cmp, err |-> "none"]
        ELSE IF ~u.ok
        THEN [index_key |-> ik, ptr |-> ptr, cmp0 |-> cmp, err |-> "abort"]
        ELSE IF cmp = 0
        THEN [index_key |-> ik, ptr |-> u.value, cmp0 |-> 0, err |-> "none"]
        ELSE SkiplistScan(F, pos + 2 + len + Len(buf), key, ik, ik, u.value, cmp)

\* do_find, case 0x02.
SkiplistSeek(F, c, key) ==
    LET sc == SkiplistScan(F, F.root + 1, key, <<>>, <<>>, 0, 1)
        c1 == [c EXCEPT !.pos = sc.ptr, !.last_key = sc.index_key,
                        !.current_key = sc.index_key]
        r == next_from_index(F, c1)
    IN  IF sc.err # "none" THEN Done([c EXCEPT !.err = sc.err], FALSE)
        ELSE IF sc.ptr = 0 THEN Seeked(c1)
        ELSE IF r.c.err # "none" THEN Done(r.c, FALSE)
        ELSE IF sc.cmp0 = 0 THEN Done(r.c, TRUE)
        ELSE Seeked([r.c EXCEPT !.pos = r.c.pos + r.c.val_size])

\* A switch that treats an unknown index type as the array index.
IndexSeekUnknownIsArray(F, c, key) ==
    LET index_type == FhRead(F, F.root)
    IN  CASE index_type = 1 -> BinaryChopSeek(F, c, key)
          [] index_type = 2 -> SkiplistSeek(F, c, key)
          [] OTHER -> ArraySeek(F, c, key)

\* do_find, "if (use_index)": the switch on the byte at the root.
IndexSeek(F, c, key) ==
    LET index_type == FhRead(F, F.root)
    IN  CASE index_type = 0 -> ArraySeek(F, c, key)
          [] index_type = 1 -> BinaryChopSeek(F, c, key)
          [] index_type = 2 -> SkiplistSeek(F, c, key)
          [] OTHER -> Done([c EXCEPT !.pos = F.root + 1,
                                     !.err = "DatabaseCorruptError"], FALSE)

\* A do_find that never consults the index when the cursor is on a key.
do_find_never_index(F, c, key, greater_than) ==
    IF ~c.is_at_end /\ c.last_key # <<>>
    THEN StepForward(F, c, key)
    ELSE LET s == IndexSeek(F, c, key)
         IN  IF s.done THEN [c |-> s.c, ret |-> s.ret]
             ELSE StepForward(F, [s.c EXCEPT !.is_at_end = FALSE, !.val_size = 0], key)

\* do_find(key, greater_than); greater_than is not used.
do_find(F, c, key, greater_than) ==
    LET near == ~c.is_at_end /\ c.last_key # <<>> /\ c.last_key[1] = key[1]
        cmp0 == Compare(c.last_key, key)
        use_index == ~(near /\ cmp0 < 0)
        s == IndexSeek(F, c, key)
    IN  IF near /\ cmp0 = 0
        THEN [c |-> [c EXCEPT !.current_key = c.last_key], ret |-> TRUE]
        ELSE IF ~use_index THEN StepForward(F, c, key)
        ELSE IF s.done THEN [c |-> s.c, ret |-> s.ret]
        ELSE StepForward(F, [s.c EXCEPT !.is_at_end = FALSE, !.val_size = 0], key)

\* A key greater than any possible key.
BeyondAllKeys == [j \in 1..(HONEY_MAX_KEY_LEN + 1) |-> 255]

RECURSIVE PrevLoop(_, _, _)
\* prev(), the do-while loop: the cursor when the loop ends and the position
\* saved at the start of its last iteration.
PrevLoop(F, c, key) ==
    LET saved == [pos |-> c.pos, k |-> c.current_key, vs |-> c.val_size,
                  compressed |-> c.current_compressed]
        n == next(F, c)
    IN  IF n.c.err = "none" /\ n.ret /\ Compare(n.c.current_key, key) < 0
        THEN PrevLoop(F, n.c, key)
        ELSE [c |-> n.c, saved |-> saved]

\* A prev() that keeps the position the loop stopped at.
prev_no_restore(F, c) ==
    LET key == IF c.is_at_end THEN BeyondAllKeys ELSE c.current_key
        l == PrevLoop(F, rewind(c), key)
    IN  IF ~c.is_at_end /\ c.current_key = <<>> THEN [c |-> c, ret |-> FALSE]
        ELSE [c |-> [l.c EXCEPT !.is_at_end = FALSE], ret |-> TRUE]

\* A prev() without the test for an empty current key.
prev_always_true(F, c) ==
    LET key == IF c.is_at_end THEN BeyondAllKeys ELSE c.current_key
        l == PrevLoop(F, rewind(c), key)
    IN  IF l.c.err # "none" THEN [c |-> l.c, ret |-> FALSE]
        ELSE [c |-> [l.c EXCEPT !.is_at_end = FALSE,
                                !.last_key = l.saved.k,
                                !.current_key = l.saved.k,
                                !.val_size = l.saved.vs,
                                !.current_compressed = l.saved.compressed,
                                !.pos = l.saved.pos],
              ret |-> TRUE]

\* A prev() that backs up to the previous entry but leaves last_key at the
\* key its loop stopped on.
prev_keeps_last_key(F, c) ==
    LET key == IF c.is_at_end THEN BeyondAllKeys ELSE c.current_key
        l == PrevLoop(F, rewind(c), key)
    IN  IF ~c.is_at_end /\ c.current_key = <<>> THEN [c |-> c, ret |-> FALSE]
        ELSE IF l.c.err # "none" THEN [c |-> l.c, ret |-> FALSE]
        ELSE [c |-> [l.c EXCEPT !.is_at_end = FALSE,
                                !.current_key = l.saved.k,
                                !.val_size = l.saved.vs,
                                !.current_compressed = l.saved.compressed,
                                !.pos = l.saved.pos],
              ret |-> TRUE]

\* prev()
prev(F, c) ==
    LET key == IF c.is_at_end THEN BeyondAllKeys ELSE c.current_key
        l == PrevLoop(F, rewind(c), key)
    IN  IF ~c.is_at_end /\ c.current_key = <<>> THEN [c |-> c, ret |-> FALSE]
        ELSE IF l.c.err # "none" THEN [c |-> l.c, ret |-> FALSE]
        ELSE [c |-> [l.c EXCEPT !.is_at_end = FALSE,
                                !.last_key = l.saved.k,
                                !.current_key = l.saved.k,
                                !.val_size = l.saved.vs,
                                !.current_compressed = l.saved.compressed,
                                !.pos = l.saved.pos],
              ret |-> TRUE]

----------------------------------------------------------------------------
(* The cursor's operations as actions                                       *)

\* The keys tables are made of: shared prefixes, first bytes 2 and 4 (none
\* with 3), and two keys that agree on more bytes than the binary chop index
\* keeps.
KeyPool == { <<2>>, <<2, 2>>, <<2, 2, 2, 2, 2>>, <<2, 2, 2, 2, 4>>, <<4>>, <<4, 2>> }

\* Keys that are in no table: between those of the pool, and with a first byte
\* below (1), inside a gap of (3) and above (5) the pool's.
AbsentKeys == { <<1>>, <<2, 2, 2, 2>>, <<2, 2, 2, 2, 3>>, <<3>>, <<4, 1>>, <<5>> }

\* The keys looked up.
FindKeys == KeyPool \cup AbsentKeys

\* The find calls made: an exact find of every key, and a greater_than find of
\* every key that is in no table.
FindCalls == (FindKeys \X {FALSE}) \cup (AbsentKeys \X {TRUE})

RECURSIVE SortedSeq(_)
\* The keys of S in ascending order.
SortedSeq(S) ==
    IF S = {} THEN <<>>
    ELSE LET m == CHOOSE k \in S : \A o \in S : Compare(k, o) <= 0
         IN  <<m>> \o SortedSeq(S \ {m})

Tables == {SortedSeq(S) : S \in {T \in SUBSET KeyPool : Cardinality(T) <= MaxEntries}}

IndexTypes == {0, 1, 2}

\* A fresh cursor over file F, which was written from keys.
CursorOver(keys, F) ==
    /\ table = keys
    /\ fh = F
    /\ cursor = NewCursor
    /\ op = "none"
    /\ ret = FALSE
    /\ arg = <<>>
    /\ pre_key = <<>>
    /\ pre_end = FALSE
    /\ scanning = TRUE
    /\ trail = <<>>

CursorInit(keys, type) == CursorOver(keys, BuildFile(keys, type))

\* The cursor is on an entry.
OnEntry(c) == ~c.is_at_end /\ c.current_key # <<>>

CurRewind ==
    /\ UNCHANGED not_cursor_vars
    /\ cursor.err = "none"
    /\ cursor' = rewind(cursor)
    /\ op' = "rewind"
    /\ ret' = TRUE
    /\ arg' = <<>>
    /\ pre_key' = <<>>
    /\ pre_end' = FALSE
    /\ scanning' = TRUE
    /\ trail' = <<>>
    /\ UNCHANGED <<fh, table>>

CurNext ==
    /\ UNCHANGED not_cursor_vars
    /\ cursor.err = "none"
    /\ LET r == next(fh, cursor)
       IN  /\ cursor' = r.c
           /\ ret' = r.ret
           /\ trail' = IF scanning /\ r.ret THEN Append(trail, r.c.current_key) ELSE trail
    /\ op' = "next"
    /\ arg' = <<>>
    /\ pre_key' = <<>>
    /\ pre_end' = FALSE
    /\ UNCHANGED <<fh, table, scanning>>

CurReadTag(keep_compressed) ==
    /\ UNCHANGED not_cursor_vars
    /\ cursor.err = "none"
    /\ OnEntry(cursor)
    /\ LET r == read_tag(fh, cursor, keep_compressed)
       IN  /\ cursor' = r.c
           /\ ret' = r.ret
    /\ op' = IF keep_compressed THEN "read_tag_raw" ELSE "read_tag"
    /\ arg' = <<>>
    /\ pre_key' = <<>>
    /\ pre_end' = FALSE
    /\ UNCHANGED <<fh, table, scanning, trail>>

CurFind(key, greater_than) ==
    /\ UNCHANGED not_cursor_vars
    /\ cursor.err = "none"
    /\ LET r == do_find(fh, cursor, key, greater_than)
       IN  /\ cursor' = r.c
           /\ ret' = r.ret
    /\ op' = "find"
    /\ arg' = key
    /\ pre_key' = IF /\ ~cursor.is_at_end /\ cursor.last_key # <<>>
                     /\ cursor.last_key[1] = key[1]
                     /\ Compare(cursor.last_key, key) < 0
                  THEN cursor.last_key ELSE <<>>
    /\ pre_end' = FALSE
    /\ scanning' = FALSE
    /\ trail' = <<>>
    /\ UNCHANGED <<fh, table>>

CurPrev ==
    /\ UNCHANGED not_cursor_vars
    /\ cursor.err = "none"
    /\ LET r == prev(fh, cursor)
       IN  /\ cursor' = r.c
           /\ ret' = r.ret
    /\ op' = "prev"
    /\ arg' = <<>>
    /\ pre_key' = cursor.current_key
    /\ pre_end' = cursor.is_at_end
    /\ scanning' = FALSE
    /\ trail' = <<>>
    /\ UNCHANGED <<fh, table>>

----------------------------------------------------------------------------
(* Three cursors over the same table written with index types 0x00, 0x01   *)
(* and 0x02, moved together                                                 *)

TrioInit(keys) ==
    /\ trio_keys = keys
    /\ trio_fh = [t \in IndexTypes |-> BuildFile(keys, t)]
    /\ trio = [t \in IndexTypes |-> NewCursor]
    /\ trio_ret = [t \in IndexTypes |-> FALSE]
    /\ trio_op = "none"

\* The keys looked up on the three tables: every key of the table and every
\* absent key that lies between two adjacent keys of it.
TrioFindKeys ==
    {k \in FindKeys :
        \/ \E j \in 1..Len(trio_keys) : trio_keys[j] = k
        \/ \E j \in 1..(Len(trio_keys) - 1) :
              Compare(trio_keys[j], k) < 0 /\ Compare(k, trio_keys[j + 1]) < 0}

\* The same operation on the three cursors: r[t] is its result on trio[t].
TrioDo(name, r) ==
    /\ \A t \in IndexTypes : trio[t].err = "none"
    /\ trio' = [t \in IndexTypes |-> r[t].c]
    /\ trio_ret' = [t \in IndexTypes |-> r[t].ret]
    /\ trio_op' = name
    /\ UNCHANGED <<trio_keys, trio_fh>>
    /\ UNCHANGED not_trio_vars

TrioRewind ==
    TrioDo("rewind", [t \in IndexTypes |-> [c |-> rewind(trio[t]), ret |-> TRUE]])

TrioNext == TrioDo("next", [t \in IndexTypes |-> next(trio_fh[t], trio[t])])

TrioPrev == TrioDo("prev", [t \in IndexTypes |-> prev(trio_fh[t], trio[t])])

TrioFind(key, greater_than) ==
    /\ key \in TrioFindKeys
    /\ TrioDo("find", [t \in IndexTypes |->
                          do_find(trio_fh[t], trio[t], key, greater_than)])

----------------------------------------------------------------------------
(* Registry: the maps of registered subclasses                              *)

\* Two of the registry's maps: wtschemes holds clones of the objects
\* registered, key_makers holds the (optionally ref-counted) objects themselves.
Categories == {"wtschemes", "key_makers"}
ClonedCategories == {"wtschemes"}

\* Names of the objects registered and looked up; name() may also be empty.
Names == {"a", "b"}
RegNames == Names \cup {""}

\* add_defaults(): every map starts with a built-in object under name "b".
BuiltinName == "b"
BuiltinId(cat) == IF cat = "wtschemes" THEN 1 ELSE 2
ObjIds == 1..(Cardinality(Categories) + MaxRegs)

\* m[name] = v, inserting name if the map has no such key.
SetEntry(m, name, v) ==
    [n \in DOMAIN m \cup {name} |-> IF n = name THEN v ELSE m[n]]

\* delete p / dropping a reference to p; nothing for NULL.
Release(rel, p) == IF p = 0 THEN rel ELSE [rel EXCEPT ![p] = @ + 1]

\* The registry's maps and heap as one record.
Registry == [reg |-> reg, origin |-> origin, released |-> released, next_id |-> next_id]

\* A register_object that keeps the entry it finds under the name.
register_cloned_keeps_old(R, cat, name, clone_null, call) ==
    IF name = "" THEN [st |-> R, err |-> "InvalidOperationError"]
    ELSE IF name \in DOMAIN R.reg[cat] THEN [st |-> R, err |-> "none"]
    ELSE [st |-> [reg |-> [R.reg EXCEPT ![cat] = SetEntry(@, name, R.next_id)],
                  origin |-> [R.origin EXCEPT ![R.next_id] = call],
                  released |-> R.released,
                  next_id |-> R.next_id + 1],
          err |-> "none"]

\* A register_object that tests the name after it has emptied the entry.
register_cloned_checks_late(R, cat, name, clone_null, call) ==
    LET p == IF name \in DOMAIN R.reg[cat] THEN R.reg[cat][name] ELSE 0
        emptied == [R EXCEPT !.reg[cat] = SetEntry(@, name, 0),
                             !.released = Release(@, p)]
    IN  IF name = "" \/ clone_null
        THEN [st |-> emptied, err |-> "InvalidOperationError"]
        ELSE [st |-> [emptied EXCEPT !.reg[cat] = SetEntry(@, name, R.next_id),
                                     !.origin[R.next_id] = call,
                                     !.next_id = R.next_id + 1],
              err |-> "none"]

\* A register_object that calls clone() before it touches the map.
register_cloned_clones_first(R, cat, name, clone_null, call) ==
    LET p == IF name \in DOMAIN R.reg[cat] THEN R.reg[cat][name] ELSE 0
    IN  IF name = "" \/ clone_null THEN [st |-> R, err |-> "InvalidOperationError"]
        ELSE [st |-> [R EXCEPT !.reg[cat] = SetEntry(@, name, R.next_id),
                               !.released = Release(@, p),
                               !.origin[R.next_id] = call,
                               !.next_id = R.next_id + 1],
              err |-> "none"]

\* register_object for an object that requires cloning; clone_null says that
\* the object's clone() returns NULL, call numbers the registration.
register_cloned(R, cat, name, clone_null, call) ==
    LET p == IF name \in DOMAIN R.reg[cat] THEN R.reg[cat][name] ELSE 0
        \* after insert(), and swap and delete if the name had an entry
        emptied == [R EXCEPT !.reg[cat] = SetEntry(@, name, 0),
                             !.released = Release(@, p)]
        clone == R.next_id
    IN  IF name = "" THEN [st |-> R, err |-> "InvalidOperationError"]
        ELSE IF clone_null THEN [st |-> emptied, err |-> "InvalidOperationError"]
        ELSE [st |-> [emptied EXCEPT !.reg[cat] = SetEntry(@, name, clone),
                                     !.origin[clone] = call,
                                     !.next_id = clone + 1],
              err |-> "none"]

\* register_object for an optionally ref-counted object: the map holds the
\* object itself, and assigning to the entry drops the prior object.
register_counted(R, cat, name, call) ==
    LET p == IF name \in DOMAIN R.reg[cat] THEN R.reg[cat][name] ELSE 0
        obj == R.next_id
    IN  IF name = "" THEN [st |-> R, err |-> "InvalidOperationError"]
        ELSE [st |-> [R EXCEPT !.reg[cat] = SetEntry(@, name, obj),
                               !.released = Release(@, p),
                               !.origin[obj] = call,
                               !.next_id = obj + 1],
              err |-> "none"]

\* A lookup that finds nothing under names registered by the user.
lookup_builtin_only(R, cat, name) ==
    IF name = BuiltinName /\ name \in DOMAIN R.reg[cat] THEN BuiltinId(cat) ELSE 0

\* lookup_object, both overloads: the entry under name, NULL if there is none.
lookup_object(R, cat, name) ==
    IF name \in DOMAIN R.reg[cat] THEN R.reg[cat][name] ELSE 0

\* Registry::Internal::Internal(): the maps hold the built-in objects.
RegistryInit ==
    /\ reg = [cat \in Categories |-> [n \in {BuiltinName} |-> BuiltinId(cat)]]
    /\ origin = [o \in ObjIds |-> 0]
    /\ released = [o \in ObjIds |-> 0]
    /\ next_id = Cardinality(Categories) + 1
    /\ reg_calls = 0
    /\ latest = [cat \in Categories |-> [n \in {BuiltinName} |-> 0]]
    /\ nulled = [cat \in Categories |-> {}]
    /\ reg_op = "none"
    /\ reg_cat = "wtschemes"
    /\ reg_name = ""
    /\ reg_err = "none"
    /\ reg_result = 0
    /\ reg_before = reg
    /\ released_before = released

\* Registry::register_weighting_scheme / register_key_maker.
RegRegister(cat, name, clone_null) ==
    /\ UNCHANGED not_registry_vars
    /\ reg_calls < MaxRegs
    /\ cat \in ClonedCategories \/ ~clone_null
    /\ LET call == reg_calls + 1
           r == IF cat \in ClonedCategories
                THEN register_cloned(Registry, cat, name, clone_null, call)
                ELSE register_counted(Registry, cat, name, call)
       IN  /\ reg' = r.st.reg
           /\ origin' = r.st.origin
           /\ released' = r.st.released
           /\ next_id' = r.st.next_id
           /\ reg_err' = r.err
           /\ reg_calls' = call
           /\ latest' = IF name # "" /\ ~clone_null
                        THEN [latest EXCEPT ![cat] = SetEntry(@, name, call)]
                        ELSE latest
           /\ nulled' = IF name = "" THEN nulled
                        ELSE IF clone_null THEN [nulled EXCEPT ![cat] = @ \cup {name}]
                        ELSE [nulled EXCEPT ![cat] = @ \ {name}]
    /\ reg_op' = "register"
    /\ reg_cat' = cat
    /\ reg_name' = name
    /\ reg_before' = reg
    /\ released_before' = released
    /\ UNCHANGED reg_result

\* Registry::get_weighting_scheme / get_key_maker.
RegLookup(cat, name) ==
    /\ UNCHANGED not_registry_vars
    /\ reg_result' = lookup_object(Registry, cat, name)
    /\ reg_op' = "lookup"
    /\ reg_cat' = cat
    /\ reg_name' = name
    /\ reg_err' = "none"
    /\ reg_before' = reg
    /\ released_before' = released
    /\ UNCHANGED <<reg, origin, released, next_id, reg_calls, latest, nulled>>

----------------------------------------------------------------------------
(* OmWritableDatabase: handles sharing ref-counted databases                *)

\* Two writable handles and a read-only OmDatabase handle, used by two threads.
WritableHandles == {"w1", "w2"}
Handles == WritableHandles \cup {"r"}
Threads == {"t1", "t2"}

\* The databases the handles are constructed on; "ro" was opened read-only.
InitialDb(h) == CASE h = "w1" -> "db1" [] h = "w2" -> "db2" [] OTHER -> "ro"

\* OmDatabase::is_writable(): whether the handle's database takes writes.
is_writable(h) == mydb[h] # "ro"

\* The operations that call through to the database.
Operations == {"begin_session", "end_session", "flush", "begin_transaction",
               "commit_transaction", "cancel_transaction", "add_document",
               "delete_document", "replace_document", "get_document"}

\* A document is the sequence of its terms' names, a name a sequence of
\* characters.  The documents added: one with named terms only, and two with
\* a term of zero length, in the last and in the first place.
Documents == { <<<<1>>, <<2>>>>, <<<<1>>, <<>>>>, <<<<>>, <<1>>>> }

\* The documents an operation is called with: only add_document takes one.
DocumentsFor(oper) == IF oper = "add_document" THEN Documents ELSE {<<>>}

\* A check that looks at the first term only.
zero_length_first_term(terms) == terms # <<>> /\ Len(terms[1]) = 0

RECURSIVE zero_length_term(_)
\* add_document, the loop over document.terms: whether it meets a term with
\* "tname.size() == 0".
zero_length_term(terms) ==
    IF terms = <<>> THEN FALSE
    ELSE IF Len(Head(terms)) = 0 THEN TRUE
    ELSE zero_length_term(Tail(terms))

IdleThread ==
    [pc |-> "idle", op |-> "none", h |-> "w1", src |-> "w1", database |-> "none",
     err |-> "none", doc |-> <<>>, passed |-> <<>>]

\* The mutexes thread t holds.
Holds(t) == {h \in Handles : mutex[h] = t}

DbInit ==
    /\ mydb = [h \in Handles |-> InitialDb(h)]
    /\ mutex = [h \in Handles |-> "free"]
    /\ th = [t \in Threads |-> IdleThread]
    /\ destroyed = {}

\* An operation that calls the database with the sentry still in scope.
AfterCopyKeepsLock(oper) == "call"

\* The step after "database = internal->mydb.get()": the sentry's block ends.
AfterCopy(oper) == "unlock"

\* An assignment that does not test its source.
AfterCheckAlwaysAssigns(writable) == "a_lock"

\* operator=(const OmDatabase&): the branch on other.is_writable().
AfterCheck(writable) == IF writable THEN "a_lock" ELSE "throw"

\* Thread t enters one of the ten operations on writable handle h.  Only
\* add_document takes a document, and looks at it first: a term of zero
\* length makes it throw before anything else happens.
OpBegin(t, oper, h, doc) ==
    /\ UNCHANGED not_db_vars
    /\ th[t].pc = "idle"
    /\ th' = [th EXCEPT ![t] =
                IF oper = "add_document" /\ zero_length_term(doc)
                THEN [IdleThread EXCEPT !.op = oper, !.h = h, !.doc = doc,
                                        !.err = "InvalidArgumentError"]
                ELSE [IdleThread EXCEPT !.pc = "lock", !.op = oper, !.h = h,
                                        !.doc = doc]]
    /\ UNCHANGED <<mydb, mutex, destroyed>>

\* OmLockSentry locksentry(internal->mutex)
OpLock(t) ==
    /\ UNCHANGED not_db_vars
    /\ th[t].pc = "lock"
    /\ mutex[th[t].h] = "free"
    /\ mutex' = [mutex EXCEPT ![th[t].h] = t]
    /\ th' = [th EXCEPT ![t].pc = "copy"]
    /\ UNCHANGED <<mydb, destroyed>>

\* database = internal->mydb.get()
OpCopy(t) ==
    /\ UNCHANGED not_db_vars
    /\ th[t].pc = "copy"
    /\ th' = [th EXCEPT ![t].database = mydb[th[t].h], ![t].pc = AfterCopy(th[t].op)]
    /\ UNCHANGED <<mydb, mutex, destroyed>>

\* The sentry goes out of scope.
OpUnlock(t) ==
    /\ UNCHANGED not_db_vars
    /\ th[t].pc = "unlock"
    /\ mutex' = [mutex EXCEPT ![th[t].h] = "free"]
    /\ th' = [th EXCEPT ![t].pc = "call"]
    /\ UNCHANGED <<mydb, destroyed>>

\* database->op(...) starts.
OpCall(t) ==
    /\ UNCHANGED not_db_vars
    /\ th[t].pc = "call"
    /\ th' = [th EXCEPT ![t].pc = "in_call",
                        ![t].passed = IF th[t].op = "add_document"
                                      THEN Append(@, th[t].doc) ELSE @]
    /\ UNCHANGED <<mydb, mutex, destroyed>>

\* database->op(...) returns, and with it the operation.  The call may also
\* never return (the step is not taken): nothing else is known of a call
\* made through a pointer to a destroyed database.
OpReturn(t) ==
    /\ UNCHANGED not_db_vars
    /\ th[t].pc = "in_call"
    /\ th' = [th EXCEPT ![t] = IdleThread]
    /\ UNCHANGED <<mydb, mutex, destroyed>>

\* Thread t enters h = src.  With src an OmDatabase the overload that tests
\* is_writable() runs (checked), with src an OmWritableDatabase the other one.
AssignBegin(t, h, src, checked) ==
    /\ UNCHANGED not_db_vars
    /\ th[t].pc = "idle"
    /\ h \in WritableHandles
    /\ checked \/ src \in WritableHandles
    /\ th' = [th EXCEPT ![t] = [IdleThread EXCEPT
                !.pc = IF checked THEN "a_check" ELSE "a_lock",
                !.op = IF checked THEN "assign" ELSE "assign_writable",
                !.h = h, !.src = src]]
    /\ UNCHANGED <<mydb, mutex, destroyed>>

\* if (other.is_writable()) ... else throw OmInvalidArgumentError
AssignCheck(t) ==
    /\ UNCHANGED not_db_vars
    /\ th[t].pc = "a_check"
    /\ th' = [th EXCEPT ![t] =
                IF AfterCheck(is_writable(th[t].src)) = "throw"
                THEN [@ EXCEPT !.pc = "idle", !.err = "InvalidArgumentError"]
                ELSE [@ EXCEPT !.pc = AfterCheck(is_writable(th[t].src))]]
    /\ UNCHANGED <<mydb, mutex, destroyed>>

\* A sentry on the source handle as well as on the target.
SentryMutexesBoth(h, src) == {h, src}

\* The mutexes an assignment h = src takes: "OmLockSentry
\* locksentry(internal->mutex)", the target's.
SentryMutexes(h, src) == {h}

\* The references to database db: the handles whose mydb points to it.
RefCount(db) == Cardinality({h \in Handles : mydb[h] = db})

\* OmLockSentry locksentry(internal->mutex): the target's mutex first.
AssignLock(t) ==
    LET need == SentryMutexes(th[t].h, th[t].src) \ Holds(t)
        x == IF th[t].h \in need THEN th[t].h ELSE th[t].src
    IN  /\ UNCHANGED not_db_vars
        /\ th[t].pc = "a_lock"
        /\ mutex[x] = "free"
        /\ mutex' = [mutex EXCEPT ![x] = t]
        /\ th' = [th EXCEPT ![t].pc = IF need = {x} THEN "a_read" ELSE "a_lock"]
        /\ UNCHANGED <<mydb, destroyed>>

\* internal->mydb = other.internal->mydb, the right-hand side: the source's
\* pointer is read.  The source's mutex is not held, so a store to the source
\* by another thread can come before or after this read.
AssignRead(t) ==
    /\ UNCHANGED not_db_vars
    /\ th[t].pc = "a_read"
    /\ th' = [th EXCEPT ![t].database = mydb[th[t].src], ![t].pc = "a_store"]
    /\ UNCHANGED <<mydb, mutex, destroyed>>

\* internal->mydb = other.internal->mydb, the store ("pointers are reference
\* counted"): the target drops its reference to the database it had, which
\* is destroyed if that was the last one.
AssignStore(t) ==
    LET h == th[t].h
        old == mydb[h]
    IN  /\ UNCHANGED not_db_vars
        /\ th[t].pc = "a_store"
        /\ mydb' = [mydb EXCEPT ![h] = th[t].database]
        /\ destroyed' = IF old # th[t].database /\ RefCount(old) = 1
                         THEN destroyed \cup {old} ELSE destroyed
        /\ th' = [th EXCEPT ![t].pc = "a_unlock"]
        /\ UNCHANGED mutex

\* The sentry goes out of scope.
AssignUnlock(t) ==
    /\ UNCHANGED not_db_vars
    /\ th[t].pc = "a_unlock"
    /\ mutex' = [x \in Handles |-> IF mutex[x] = t THEN "free" ELSE mutex[x]]
    /\ th' = [th EXCEPT ![t] = IdleThread]
    /\ UNCHANGED <<mydb, destroyed>>

-----------------------------------------------------------------------------
(* PL2PlusWeight (src/unnamed/part_000)                                     *)
(*                                                                          *)
(* A double is modelled as a fixed-point number: the integer x stands for   *)
(* the real x / Scale.  Sums, products, quotients and log2 are rounded to   *)
(* that grid, so a computed weight is within a few units of 1/Scale of the  *)
(* real one.                                                                *)

Scale == 2 ^ 12

\* The integer n as a double.
Fx(n) == n * Scale

FxMul(a, b) == (a * b) \div Scale

FxDiv(a, b) == (a * Scale) \div b

RECURSIVE Log2Frac(_, _)
\* The binary digits of log2(x / Scale) for Scale <= x < 2 * Scale, from the
\* digit worth "bit" downwards: squaring x doubles its logarithm.
Log2Frac(x, bit) ==
    IF bit = 0 THEN 0
    ELSE LET sq == (x * x) \div Scale
         IN  IF sq >= 2 * Scale THEN bit + Log2Frac(sq \div 2, bit \div 2)
             ELSE Log2Frac(sq, bit \div 2)

RECURSIVE log2(_)
\* log2 of a positive double.
log2(x) ==
    IF x >= 2 * Scale THEN Scale + log2(x \div 2)
    ELSE IF x < Scale THEN log2(2 * x) - Scale
    ELSE Log2Frac(x, Scale \div 2)

\* log(2.0), 2.0 * M_PI and 0.5 as doubles.
Ln2 == FxDiv(Scale, log2((2718 * Scale) \div 1000))
TwoPi == (6283 * Scale) \div 1000
Half == Scale \div 2

\* ---- the statistics of the Weight base class ----

CollectionSize == 16
MaxWdf == 2
MaxLen == 8

\* The statistics of one term of one query over one database: the term occurs
\* collection_freq times in CollectionSize documents, at most wdf_upper_bound
\* times in one of them, and no document is shorter than doclength_lower_bound
\* or longer than doclength_upper_bound.  A term that occurs at all occurs
\* at least once in some document, and no more often in one document than in
\* the collection.
Pl2Stats ==
    LET freqs == {0, 1, CollectionSize \div 2, CollectionSize, 2 * CollectionSize}
        occurs == {p \in freqs \X (0..MaxWdf) : p[2] <= p[1] /\ (p[1] > 0 => p[2] >= 1)}
    IN  {[collection_size |-> CollectionSize, collection_freq |-> p[1],
          wdf_upper_bound |-> p[2], doclength_lower_bound |-> 2,
          doclength_upper_bound |-> MaxLen,
          average_length |-> ((2 + MaxLen) * Scale) \div 2, wqf |-> wqf] :
            p \in occurs, wqf \in {1, 2}}

\* The values of c and of delta a scheme is built with, and values that are
\* not > 0.
CParams == {Half, 2 * Scale}
DeltaParams == {(4 * Scale) \div 5, Scale}
BadParams == {0, -Scale}

\* ---- serialise_double / unserialise_double ----

RECURSIVE Base256(_, _)
\* The n low bytes of v, most significant first.
Base256(v, n) ==
    IF n = 0 THEN <<>> ELSE Append(Base256(v \div 256, n - 1), v % 256)

RECURSIVE ByteLen(_)
\* The bytes needed for the magnitude v.
ByteLen(v) == IF v = 0 THEN 0 ELSE 1 + ByteLen(v \div 256)

Abs(v) == IF v < 0 THEN -v ELSE v

\* The portable encoding of a double: one byte holding the sign (0x80) and
\* the number of magnitude bytes, then the magnitude, most significant first.
serialise_double(v) ==
    <<(IF v < 0 THEN 128 ELSE 0) + ByteLen(Abs(v))>> \o Base256(Abs(v), ByteLen(Abs(v)))

RECURSIVE FromBase256(_)
FromBase256(bytes) ==
    IF bytes = <<>> THEN 0
    ELSE 256 * FromBase256(SubSeq(bytes, 1, Len(bytes) - 1)) + bytes[Len(bytes)]

\* unserialise_double(&ptr, end): the double at ptr and the new ptr, or a
\* serialisation error when the bytes end before the encoding does.
unserialise_double(bytes, ptr) ==
    IF ptr > Len(bytes) THEN [err |-> "SerialisationError", v |-> 0, ptr |-> ptr]
    ELSE LET n == bytes[ptr] % 128
             mag == FromBase256(SubSeq(bytes, ptr + 1, ptr + n))
         IN  IF ptr + n > Len(bytes)
             THEN [err |-> "SerialisationError", v |-> 0, ptr |-> ptr]
             ELSE [err |-> "none", v |-> IF bytes[ptr] >= 128 THEN -mag ELSE mag,
                   ptr |-> ptr + n + 1]

\* ---- the scheme ----

\* A constructor that tests c only.
CtorErrorChecksC(c, delta) ==
    IF c <= 0 THEN "InvalidArgumentError" ELSE "none"

\* PL2PlusWeight(c, delta): the error the constructor throws, if any.
CtorError(c, delta) ==
    IF c <= 0 \/ delta <= 0 THEN "InvalidArgumentError" ELSE "none"

\* The object the constructor leaves: init() has not run, so what it caches
\* is not set.
NewWeight(c, delta) ==
    [param_c |-> c, param_delta |-> delta, inited |-> FALSE, factor |-> "unset",
     mean |-> "unset", upper_bound |-> "unset", P1 |-> "unset", P2 |-> "unset",
     cl |-> "unset", dw |-> "unset"]

\* wdfn_optb: where init() evaluates part (b), (P1 - P2 * wdfn) / (wdfn + 1).
wdfn_optb(P1, P2, wdfn_lower, wdfn_upper) ==
    IF P1 + P2 > 0 THEN wdfn_upper ELSE wdfn_lower

\* init(factor_) on scheme w with statistics st.
init(w, st, factor_) ==
    IF factor_ = 0 THEN w
    ELSE
    LET factor == factor_ * st.wqf
        mean == (st.collection_freq * Scale) \div st.collection_size
        w1 == [w EXCEPT !.inited = TRUE, !.factor = factor, !.mean = mean]
    IN  IF st.wdf_upper_bound = 0 \/ mean > Scale
        THEN [w1 EXCEPT !.upper_bound = 0]
        ELSE
        LET base_change == FxDiv(Scale, Ln2)
            P1 == FxMul(mean, base_change) + FxMul(Half, log2(TwoPi))
            P2 == log2(mean) + base_change
            cl == FxMul(w.param_c, st.average_length)
            wdfn_lower == log2(Scale + FxDiv(cl, Fx(st.doclength_upper_bound)))
            divisior == IF st.wdf_upper_bound > st.doclength_lower_bound
                        THEN st.wdf_upper_bound ELSE st.doclength_lower_bound
            wdfn_upper == st.wdf_upper_bound * log2(Scale + FxDiv(cl, Fx(divisior)))
            P_delta == P1 + FxMul(w.param_delta + Half, log2(w.param_delta))
                          - FxMul(P2, w.param_delta)
            dw == FxDiv(P_delta, w.param_delta + Scale)
            P_max2a == FxDiv(FxMul(wdfn_upper + Half, log2(wdfn_upper)), wdfn_upper + Scale)
            optb == wdfn_optb(P1, P2, wdfn_lower, wdfn_upper)
            P_max2b == FxDiv(P1 - FxMul(P2, optb), optb + Scale)
            bound == FxMul(factor, P_max2a + P_max2b + dw)
        IN  [w1 EXCEPT !.P1 = P1, !.P2 = P2, !.cl = cl, !.dw = dw,
                       !.upper_bound = IF bound < 0 THEN 0 ELSE bound]

\* A get_sumpart() that gives every occurring term the weight factor.
get_sumpart_flat(w, wdf, len) == IF wdf = 0 THEN 0 ELSE w.factor

\* get_sumpart(wdf, len, ...) on an initialised scheme.
get_sumpart(w, wdf, len) ==
    IF wdf = 0 \/ w.mean > Scale THEN 0
    ELSE
    LET wdfn == wdf * log2(Scale + FxDiv(w.cl, Fx(len)))
        P == w.P1 + FxMul(wdfn + Half, log2(wdfn)) - FxMul(w.P2, wdfn)
        wt == FxDiv(P, wdfn + Scale) + w.dw
    IN  IF wt <= 0 THEN 0 ELSE FxMul(w.factor, wt)

get_maxpart(w) == w.upper_bound

\* A serialisation with delta before c.
serialise_delta_first(w) ==
    serialise_double(w.param_delta) \o serialise_double(w.param_c)

serialise(w) == serialise_double(w.param_c) \o serialise_double(w.param_delta)

\* An unserialise that does not look at what follows the two parameters.
unserialise_lenient(bytes) ==
    LET c == unserialise_double(bytes, 1)
        delta == unserialise_double(bytes, c.ptr)
    IN  IF c.err # "none" \/ delta.err # "none"
        THEN [err |-> "SerialisationError", scheme |-> "none"]
        ELSE IF CtorError(c.v, delta.v) # "none"
        THEN [err |-> CtorError(c.v, delta.v), scheme |-> "none"]
        ELSE [err |-> "none", scheme |-> NewWeight(c.v, delta.v)]

\* unserialise(s): the error thrown, or the new scheme.
unserialise(bytes) ==
    LET c == unserialise_double(bytes, 1)
        delta == IF c.err = "none" THEN unserialise_double(bytes, c.ptr) ELSE c
    IN  IF c.err # "none" \/ delta.err # "none"
        THEN [err |-> "SerialisationError", scheme |-> "none"]
        ELSE IF delta.ptr # Len(bytes) + 1
        THEN [err |-> "SerialisationError", scheme |-> "none"]
        ELSE IF CtorError(c.v, delta.v) # "none"
        THEN [err |-> CtorError(c.v, delta.v), scheme |-> "none"]
        ELSE [err |-> "none", scheme |-> NewWeight(c.v, delta.v)]

\* ---- create_from_parameters ----

\* A parameter text is a sequence of characters.
DigitChars == <<"0", "1", "2", "3", "4", "5", "6", "7", "8", "9">>
IsDigit(ch) == \E i \in 1..10 : DigitChars[i] = ch
DigitValue(ch) == (CHOOSE i \in 1..10 : DigitChars[i] = ch) - 1

RECURSIVE SkipSpace(_, _)
SkipSpace(text, p) ==
    IF p <= Len(text) /\ text[p] = " " THEN SkipSpace(text, p + 1) ELSE p

RECURSIVE ScanDigits(_, _, _, _)
\* The digits from p on: their value after acc, how many there are, where they end.
ScanDigits(text, p, acc, n) ==
    IF p <= Len(text) /\ IsDigit(text[p])
    THEN ScanDigits(text, p + 1, 10 * acc + DigitValue(text[p]), n + 1)
    ELSE [v |-> acc, n |-> n, p |-> p]

\* double_param(&p, &val): strtod at p; false when no number starts there,
\* else the number and p moved past it.
double_param(text, p) ==
    LET start == SkipSpace(text, p)
        neg == start <= Len(text) /\ text[start] = "-"
        int == ScanDigits(text, IF neg THEN start + 1 ELSE start, 0, 0)
        dot == int.p <= Len(text) /\ text[int.p] = "."
        frac == IF dot THEN ScanDigits(text, int.p + 1, 0, 0)
                ELSE [v |-> 0, n |-> 0, p |-> int.p]
        mag == int.v * Scale + (frac.v * Scale) \div (10 ^ frac.n)
    IN  IF int.n + frac.n = 0 THEN [ok |-> FALSE, v |-> 0, p |-> p]
        ELSE [ok |-> TRUE, v |-> IF neg THEN -mag ELSE mag, p |-> frac.p]

\* create_from_parameters(params): the error thrown, or the new scheme.
create_from_parameters(text) ==
    IF text = <<>> THEN [err |-> "none", scheme |-> NewWeight(Scale, (4 * Scale) \div 5)]
    ELSE
    LET c == double_param(text, 1)
        delta == double_param(text, c.p)
    IN  IF ~c.ok \/ ~delta.ok \/ delta.p <= Len(text)
        THEN [err |-> "InvalidArgumentError", scheme |-> "none"]
        ELSE IF CtorError(c.v, delta.v) # "none"
        THEN [err |-> CtorError(c.v, delta.v), scheme |-> "none"]
        ELSE [err |-> "none", scheme |-> NewWeight(c.v, delta.v)]

\* The parameter texts create_from_parameters() is given.
ParamTexts ==
    {<<>>, <<"2", " ", "0", ".", "8">>, <<"0", ".", "5", " ", "1">>,
     <<"0", " ", "1">>, <<"-", "1", " ", "1">>, <<"2", " ", "0">>,
     <<"2", " ", "-", "0", ".", "5">>, <<"2">>, <<"x">>, <<"2", " ", "x">>,
     <<"2", " ", "1", " ", "3">>, <<"0", " ", "1", "x">>}

\* ---- the calls ----

NoCall == [op |-> "none", err |-> "none", result |-> "none", wdf |-> 0, len |-> 0,
           input |-> <<>>]

IdleStats ==
    [collection_size |-> 1, collection_freq |-> 1, wdf_upper_bound |-> 1,
     doclength_lower_bound |-> 1, doclength_upper_bound |-> 1,
     average_length |-> Scale, wqf |-> 1]

\* A scheme constructed with valid parameters, for a term with statistics st.
Pl2Init(st, c, delta) ==
    /\ pl2_stats = st
    /\ pl2_wt = NewWeight(c, delta)
    /\ pl2_call = NoCall

\* PL2PlusWeight(c, delta): the scheme is replaced by the new one, unless the
\* constructor throws.
Pl2Construct(c, delta) ==
    /\ UNCHANGED not_pl2_vars
    /\ pl2_call' = [NoCall EXCEPT !.op = "construct", !.err = CtorError(c, delta),
                                  !.input = <<c, delta>>,
                                  !.result = IF CtorError(c, delta) = "none"
                                             THEN NewWeight(c, delta) ELSE "none"]
    /\ pl2_wt' = IF CtorError(c, delta) = "none" THEN NewWeight(c, delta) ELSE pl2_wt
    /\ UNCHANGED pl2_stats

Pl2DoInit(factor_) ==
    /\ UNCHANGED not_pl2_vars
    /\ pl2_wt' = init(pl2_wt, pl2_stats, factor_)
    /\ pl2_call' = [NoCall EXCEPT !.op = "init", !.input = <<factor_>>]
    /\ UNCHANGED pl2_stats

\* The matcher calls get_sumpart() and get_maxpart() after init(factor) with a
\* non-zero factor, with a wdf and a document length inside the bounds of the
\* statistics.
Pl2GetSumpart(wdf, len) ==
    /\ UNCHANGED not_pl2_vars
    /\ pl2_wt.inited
    /\ wdf <= pl2_stats.wdf_upper_bound
    /\ wdf <= len
    /\ len >= pl2_stats.doclength_lower_bound
    /\ len <= pl2_stats.doclength_upper_bound
    /\ pl2_call' = [NoCall EXCEPT !.op = "get_sumpart", !.wdf = wdf, !.len = len,
                                  !.result = get_sumpart(pl2_wt, wdf, len)]
    /\ UNCHANGED <<pl2_wt, pl2_stats>>

Pl2GetMaxpart ==
    /\ UNCHANGED not_pl2_vars
    /\ pl2_wt.inited
    /\ pl2_call' = [NoCall EXCEPT !.op = "get_maxpart", !.result = get_maxpart(pl2_wt)]
    /\ UNCHANGED <<pl2_wt, pl2_stats>>

Pl2Serialise ==
    /\ UNCHANGED not_pl2_vars
    /\ pl2_call' = [NoCall EXCEPT !.op = "serialise", !.result = serialise(pl2_wt)]
    /\ UNCHANGED <<pl2_wt, pl2_stats>>

\* What unserialise() is given: the serialised form of a scheme, valid or
\* not, whole, cut short, or followed by more bytes.
Whole(c, delta) == serialise_double(c) \o serialise_double(delta)
ExtraBytes == {<<0>>, <<1, 7>>}
CutAt == {0, 2, 3, 5}
Unserialisable ==
    {Whole(c, delta) : c \in CParams \cup BadParams, delta \in DeltaParams \cup BadParams}
    \cup {Whole(c, delta) \o x : c \in CParams \cup {0}, delta \in DeltaParams,
                                 x \in ExtraBytes}
    \cup {SubSeq(Whole(c, delta), 1, n) : c \in CParams, delta \in DeltaParams, n \in CutAt}

\* unserialise(s) is const: it returns a new scheme and leaves this one alone.
Pl2Unserialise(bytes) ==
    /\ UNCHANGED not_pl2_vars
    /\ pl2_call' = [NoCall EXCEPT !.op = "unserialise", !.input = bytes,
                                  !.err = unserialise(bytes).err,
                                  !.result = unserialise(bytes).scheme]
    /\ UNCHANGED <<pl2_wt, pl2_stats>>

\* create_from_parameters(params) is const too.
Pl2CreateFromParameters(text) ==
    /\ UNCHANGED not_pl2_vars
    /\ pl2_call' = [NoCall EXCEPT !.op = "create_from_parameters", !.input = text,
                                  !.err = create_from_parameters(text).err,
                                  !.result = create_from_parameters(text).scheme]
    /\ UNCHANGED <<pl2_wt, pl2_stats>>

\* unserialise(serialise()) of the scheme at hand.
Pl2RoundTrip ==
    /\ UNCHANGED not_pl2_vars
    /\ pl2_call' = [NoCall EXCEPT !.op = "round_trip", !.input = serialise(pl2_wt),
                                  !.err = unserialise(serialise(pl2_wt)).err,
                                  !.result = unserialise(serialise(pl2_wt)).scheme]
    /\ UNCHANGED <<pl2_wt, pl2_stats>>

----------------------------------------------------------------------------
(* Specifications                                                           *)

RECURSIVE SeqsOf(_, _)
\* All sequences of length n over S.
SeqsOf(S, n) ==
    IF n = 0 THEN {<<>>}
    ELSE {Append(s, x) : s \in SeqsOf(S, n - 1), x \in S}

\* The parts a specification leaves alone: an AND node over two children that
\* hold document 1, cursors on an empty table, a registry as constructed.
AndIdle == AndInit(<<{1}, {1}>>)
CursorIdle == CursorInit(<<>>, 0)
TrioIdle == TrioInit(<<>>)
RegistryIdle == RegistryInit
DbIdle == DbInit
Pl2Idle == Pl2Init(IdleStats, Scale, Scale)

\* Every part but the named one is left alone.
IdleBut(part) ==
    /\ IF part = "and" THEN TRUE ELSE AndIdle
    /\ IF part = "cursor" THEN TRUE ELSE CursorIdle
    /\ IF part = "trio" THEN TRUE ELSE TrioIdle
    /\ IF part = "registry" THEN TRUE ELSE RegistryIdle
    /\ IF part = "db" THEN TRUE ELSE DbIdle
    /\ IF part = "pl2" THEN TRUE ELSE Pl2Idle

InitAnd ==
    /\ \E n \in KidCounts : \E dss \in SeqsOf(SUBSET Docids, n) : AndInit(dss)
    /\ IdleBut("and")

NextAnd ==
    \/ \E w \in Weights : AndNext(w)
    \/ \E d \in Docids, w \in Weights : AndSkipTo(d, w)
    \/ ScanTop
    \/ ScanStep

SpecAnd == InitAnd /\ [][NextAnd]_vars

\* next() and skip_to() run find_next_match on the calling thread: once a call
\* has started, its scan keeps taking steps until it returns.
SpecAndFair == SpecAnd /\ WF_vars(ScanTop) /\ WF_vars(ScanStep)

\* Two fixed AND nodes for the weight claims: scenario S3 of the specification
\* (terms in documents {1,3,5,7} and {3,4,5,8}) and a three-way node.
WtConfigs == { <<{1, 3, 5, 7}, {3, 4, 5, 8}>>, <<{1, 2, 3}, {2, 3}, {1, 2, 3, 4}>> }

InitAndWt == (\E dss \in WtConfigs : AndInit(dss)) /\ IdleBut("and")

NextAndWt ==
    \/ AndNext(0)
    \/ \E d \in {2, 4} : AndSkipTo(d, 0)
    \/ ScanTop
    \/ ScanStep
    \/ AndRecalc
    \/ AndGetWeight
    \/ AndDestroy

SpecAndWt == InitAndWt /\ [][NextAndWt]_vars

\* A cursor over any table of the pool with any of the three index types.
InitCursor ==
    /\ \E keys \in Tables, type \in IndexTypes : CursorInit(keys, type)
    /\ IdleBut("cursor")

NextCursor ==
    \/ CurRewind
    \/ CurNext
    \/ \E keep_compressed \in BOOLEAN : CurReadTag(keep_compressed)
    \/ \E call \in FindCalls : CurFind(call[1], call[2])
    \/ CurPrev

SpecCursor == InitCursor /\ [][NextCursor]_vars

\* Damaged files: a table file cut short before its root, so that reads meet
\* the end of the file inside the data, and a table file whose byte at the
\* root is not an index type.
Truncate(F, n) == [data |-> SubSeq(F.data, 1, n), root |-> F.root]

BadIndexTypes == {3, 255}

BadIndexType(F, b) == [data |-> [F.data EXCEPT ![F.root + 1] = b], root |-> F.root]

Damaged(F) ==
    {Truncate(F, n) : n \in 0..(F.root - 1)} \cup {BadIndexType(F, b) : b \in BadIndexTypes}

\* The keys of the tables that get damaged, and the keys looked up in them.
CorruptPool == { <<2>>, <<2, 2>>, <<4>> }

CorruptFindKeys == CorruptPool \cup { <<2, 3>>, <<3>> }

InitCorrupt ==
    /\ \E S \in SUBSET CorruptPool \ {{}}, type \in IndexTypes :
          \E F \in Damaged(BuildFile(SortedSeq(S), type)) : CursorOver(SortedSeq(S), F)
    /\ IdleBut("cursor")

NextCorrupt ==
    \/ CurRewind
    \/ CurNext
    \/ \E keep_compressed \in BOOLEAN : CurReadTag(keep_compressed)
    \/ \E key \in CorruptFindKeys : CurFind(key, FALSE)
    \/ CurPrev

SpecCorrupt == InitCorrupt /\ [][NextCorrupt]_vars

\* Scenario S6: one table of the pool written three times.
InitTrio ==
    /\ \E keys \in Tables : TrioInit(keys)
    /\ IdleBut("trio")

NextTrio ==
    \/ TrioRewind
    \/ TrioNext
    \/ TrioPrev
    \/ \E key \in FindKeys, greater_than \in BOOLEAN : TrioFind(key, greater_than)

SpecTrio == InitTrio /\ [][NextTrio]_vars

\* A registry, with registrations in both maps and lookups.
InitRegistry == RegistryInit /\ IdleBut("registry")

NextRegistry ==
    \/ \E cat \in Categories, name \in RegNames, clone_null \in BOOLEAN :
          RegRegister(cat, name, clone_null)
    \/ \E cat \in Categories, name \in RegNames : RegLookup(cat, name)

SpecRegistry == InitRegistry /\ [][NextRegistry]_vars

\* The ten operations have one body up to the database method they call
\* (and add_document's test of its argument); the threads run three of them.
RunOperations == {"begin_session", "add_document", "get_document"}

\* Two threads making operations and assignments on the handles.
InitDb == DbInit /\ IdleBut("db")

NextDb ==
    \E t \in Threads :
        \/ \E oper \in RunOperations, h \in WritableHandles :
              \E doc \in DocumentsFor(oper) : OpBegin(t, oper, h, doc)
        \/ OpLock(t)
        \/ OpCopy(t)
        \/ OpUnlock(t)
        \/ OpCall(t)
        \/ OpReturn(t)
        \/ \E h \in WritableHandles, src \in Handles, checked \in BOOLEAN :
              AssignBegin(t, h, src, checked)
        \/ AssignCheck(t)
        \/ AssignLock(t)
        \/ AssignRead(t)
        \/ AssignStore(t)
        \/ AssignUnlock(t)

SpecDb == InitDb /\ [][NextDb]_vars

\* The steps of a call in progress that wait for nothing.
Proceed(t) ==
    \/ OpCopy(t) \/ OpUnlock(t) \/ OpCall(t) \/ OpReturn(t)
    \/ AssignCheck(t) \/ AssignRead(t) \/ AssignStore(t) \/ AssignUnlock(t)

\* The steps that wait for a mutex.
Acquire(t) == OpLock(t) \/ AssignLock(t)

\* Every thread keeps running and the database calls return (weak fairness
\* of the steps that wait for nothing); a thread waiting for a mutex that is
\* released again and again gets it (strong fairness of the locks).
SpecDbFair ==
    SpecDb /\ \A t \in Threads : WF_vars(Proceed(t)) /\ SF_vars(Acquire(t))

\* The PL2+ scheme of one term: any statistics, any valid parameters.
InitPl2 ==
    /\ \E st \in Pl2Stats, c \in CParams, delta \in DeltaParams : Pl2Init(st, c, delta)
    /\ IdleBut("pl2")

NextPl2 ==
    \/ \E c \in CParams \cup BadParams, delta \in DeltaParams \cup BadParams :
            Pl2Construct(c, delta)
    \/ \E factor_ \in {0, Scale} : Pl2DoInit(factor_)
    \/ \E wdf \in 0..MaxWdf, len \in 1..MaxLen : Pl2GetSumpart(wdf, len)
    \/ Pl2GetMaxpart
    \/ Pl2Serialise
    \/ \E bytes \in Unserialisable : Pl2Unserialise(bytes)
    \/ \E text \in ParamTexts : Pl2CreateFromParameters(text)
    \/ Pl2RoundTrip

SpecPl2 == InitPl2 /\ [][NextPl2]_vars

----------------------------------------------------------------------------
(* Properties of MultiAndPostList                                           *)

\* The docids present in every child.
CommonDocs == {d \in plist[0].docs : \A n \in Kids : d \in plist[n].docs}

\* C1: with repeated next() calls only, the docids emitted so far are exactly
\* the common docids of the children up to the current one, and once the node
\* is at end they are exactly the intersection of the children's docid sets.
C1_EmitsIntersection ==
    (only_next /\ pc = "idle" /\ started) =>
        /\ emitted \subseteq CommonDocs
        /\ did # 0 => emitted = {d \in CommonDocs : d <= did}
        /\ at_end => emitted = CommonDocs

\* Three children with two common documents and a non-common one, all read.
C1_Witness ==
    /\ only_next /\ pc = "idle" /\ started /\ at_end
    /\ n_kids = 3
    /\ Cardinality(emitted) = 2
    /\ \E n \in Kids : plist[n].docs # CommonDocs

\* C2 as stated: every call that returns a docid returns one greater than the
\* docid returned before it.
C2_StrictlyAscendingAnyCall ==
    (pc = "idle" /\ started /\ ~at_end /\ prev_did # 0) => did > prev_did

\* C2 amended: a returned docid is never below the one returned before; it is
\* greater after next() and after skip_to(did_min) with did_min above the docid
\* returned before (skip_to(did_min) with did_min at or below it stays).
C2_AscendingForwardCalls ==
    (pc = "idle" /\ started /\ ~at_end /\ prev_did # 0) =>
        /\ did >= prev_did
        /\ (last_call = "next" \/ last_min > prev_did) => did > prev_did
        /\ (last_call = "skip_to" /\ last_min <= prev_did) => did = prev_did

\* A next() and a forward skip_to() that each moved the node to a later docid.
C2_Witness ==
    /\ pc = "idle" /\ ~at_end /\ prev_did # 0
    /\ last_call = "skip_to" /\ last_min > prev_did /\ did > last_min

\* C3: the weight of an emitted document is at most the maxweight returned by
\* the most recent recalc_maxweight().
C3_WeightAtMostMaxweight ==
    (recalced /\ last_weight # -1) => last_weight <= max_total

\* A document whose weight reaches a non-zero maxweight.
C3_Witness ==
    /\ recalced /\ did # 0 /\ last_weight = max_total /\ max_total > 1
    /\ \E n \in Kids : kid_max[n] < MaxWt

\* C4: recalc_maxweight() calls every child once, caches each result in
\* max_wt[i], leaves max_total the sum of max_wt[0..n_kids), and does not move
\* the node.
C4_RecalcSumsAndCaches ==
    /\ [](recalced =>
            /\ \A n \in Kids : kid_recalcs[n] = 1 /\ max_wt[n] = kid_max[n]
            /\ max_total = SumTo(max_wt, n_kids))
    /\ [][AndRecalc => (did' = did /\ plist' = plist /\ pc' = pc)]_vars

\* recalc_maxweight() called between two next() calls, with unequal child maxima.
C4_Witness ==
    /\ recalced /\ started /\ did # 0 /\ pc = "idle"
    /\ max_wt[0] # max_wt[1] /\ max_total > 0

\* C5: a recalc_maxweight() after the first never returns more than the
\* previous one did.
C5_MaxweightNeverIncreases ==
    [][(AndRecalc /\ recalced) => max_total' <= max_total]_vars

\* A second recalc_maxweight() that returned strictly less than the first.
C5_Witness ==
    recalced /\ max_total > 0 /\ max_total < SumTo([n \in Kids |-> MaxWt], n_kids)

----------------------------------------------------------------------------
(* Properties of HoneyCursor                                                *)

InTable(k) == \E j \in 1..Len(table) : table[j] = k

\* The keys of the table above / below key k.
KeysAbove(k) == {table[j] : j \in {m \in 1..Len(table) : Compare(table[m], k) > 0}}
KeysBelow(k) == {table[j] : j \in {m \in 1..Len(table) : Compare(table[m], k) < 0}}

LeastKey(S) == CHOOSE k \in S : \A o \in S : Compare(k, o) <= 0
GreatestKey(S) == CHOOSE k \in S : \A o \in S : Compare(k, o) >= 0

\* What read_tag(false) leaves in current_tag.
TagRead(c) == read_tag(fh, c, FALSE).c.current_tag

IndexType == FhRead(fh, fh.root)

\* C6: after a rewind, next() moves through the keys of the table in order and
\* each entry's tag is its value; next() returns false exactly when the file
\* position has reached the root, which is when every key has been seen.
C6_ScanRoundTrip ==
    scanning =>
        /\ cursor.err = "none"
        /\ trail = SubSeq(table, 1, Len(trail))
        /\ op = "next" =>
              /\ ret = (cursor.pos < fh.root)
              /\ ~ret => (trail = table /\ cursor.is_at_end)
              /\ ret => /\ cursor.current_key = trail[Len(trail)]
                        /\ ~cursor.is_at_end
                        /\ TagRead(cursor) = Value(cursor.current_key)
        /\ op \in {"read_tag", "read_tag_raw"} =>
              cursor.current_tag = IF cursor.current_compressed
                                   THEN Stored(cursor.current_key)
                                   ELSE Value(cursor.current_key)

\* A scan of a table of three keys, two of them sharing a prefix, read to the end.
C6_Witness ==
    /\ scanning /\ op = "next" /\ ~ret /\ cursor.is_at_end
    /\ Len(trail) = 3 /\ trail[2] = <<2, 2, 2, 2, 4>> /\ trail[3] = <<4>>

\* C7: find(k, false) of a key k of the table returns true and leaves the
\* cursor on k with k's value as its tag, whatever the cursor's state before.
C7_FindPresent ==
    (op = "find" /\ InTable(arg)) =>
        /\ ret
        /\ cursor.err = "none"
        /\ ~cursor.is_at_end
        /\ cursor.current_key = arg
        /\ TagRead(cursor) = Value(arg)

\* The last of three keys found through the skiplist index.
C7_Witness ==
    /\ op = "find" /\ ret /\ arg = <<4, 2>> /\ cursor.current_key = <<4, 2>>
    /\ Len(table) = 3 /\ IndexType = 2

\* C8: find(k, greater_than) of a key k that is not in the table returns false
\* and leaves the cursor on the least key above k, or at end when there is none.
C8_FindAbsent ==
    (op = "find" /\ ~InTable(arg)) =>
        /\ ~ret
        /\ IF KeysAbove(arg) = {}
           THEN cursor.is_at_end
           ELSE ~cursor.is_at_end /\ cursor.current_key = LeastKey(KeysAbove(arg))

\* C10: prev() at end moves to the last key, prev() on a key moves to the
\* greatest key below it; it returns true, the cursor is not at end and the
\* tag read next is the value of the new current key.
C10_Prev ==
    (op = "prev" /\ (IF pre_end THEN table # <<>> ELSE KeysBelow(pre_key) # {})) =>
        /\ ret
        /\ cursor.err = "none"
        /\ ~cursor.is_at_end
        /\ cursor.current_key = IF pre_end THEN table[Len(table)]
                                ELSE GreatestKey(KeysBelow(pre_key))
        /\ TagRead(cursor) = Value(cursor.current_key)

\* prev() from the last of three keys to a key whose value is stored compressed.
C10_Witness ==
    /\ op = "prev" /\ ret /\ ~pre_end /\ Len(table) = 3
    /\ pre_key = table[3] /\ cursor.current_key = table[2] /\ IsCompressed(table[2])

\* What a caller sees of a cursor: whether it is at end, and if not its key.
Seen(c) == [at_end |-> c.is_at_end,
            key |-> IF c.is_at_end THEN <<>> ELSE c.current_key]

\* C9: on the three tables a find of a key of the table, or of an absent key
\* between two adjacent keys, returns the same and leaves the same position.
C9_IndexTypesAgree ==
    trio_op = "find" =>
        \A t \in IndexTypes :
            /\ trio[t].err = "none"
            /\ trio_ret[t] = trio_ret[0]
            /\ Seen(trio[t]) = Seen(trio[0])

\* A find of an absent key between two keys, after the finds have moved the
\* three cursors to the same later key.
C9_Witness ==
    /\ trio_op = "find" /\ ~trio_ret[0] /\ Len(trio_keys) = 3
    /\ \A t \in IndexTypes : ~trio[t].is_at_end /\ trio[t].current_key = trio_keys[3]

----------------------------------------------------------------------------
(* Properties of HoneyCursor over damaged files                             *)

\* do_find(key) from cursor c gets as far as the switch on the index type.
ConsultsIndex(c, key) ==
    ~(~c.is_at_end /\ c.last_key # <<>> /\ c.last_key[1] = key[1]
      /\ Compare(c.last_key, key) <= 0)

\* C11: a find that consults the root index of a file whose byte at the root
\* is not 0x00, 0x01 or 0x02 fails with DatabaseCorruptError and returns nothing.
C11_UnknownIndexTypeIsCorrupt ==
    [][\A key \in CorruptFindKeys :
          (CurFind(key, FALSE) /\ ConsultsIndex(cursor, key)
           /\ IndexType \in 0..255 \ {0, 1, 2})
          => (cursor'.err = "DatabaseCorruptError" /\ ~ret')]_vars

\* A find on a cursor positioned by next() that went to the index of a file
\* with index type byte 3 and failed.
C11_Witness ==
    /\ op = "find" /\ IndexType = 3 /\ cursor.err = "DatabaseCorruptError"
    /\ cursor.last_key # <<>> /\ Compare(arg, cursor.last_key) < 0

\* C12: an operation that meets the end of the file while reading an entry's
\* reuse byte, key length byte or value size fails with DatabaseCorruptError.
C12_EofMidEntryIsCorrupt ==
    cursor.eof \in {"reuse", "key_len", "val_size"} =>
        cursor.err = "DatabaseCorruptError"

----------------------------------------------------------------------------
(* Properties of the Registry                                               *)

\* The entries of category cat other than the one under name are as before.
OthersKept(cat, name) ==
    \A c \in Categories :
        /\ DOMAIN reg[c] \ (IF c = cat THEN {name} ELSE {}) =
               DOMAIN reg_before[c] \ (IF c = cat THEN {name} ELSE {})
        /\ \A n \in DOMAIN reg_before[c] :
               (c # cat \/ n # name) => reg[c][n] = reg_before[c][n]

\* C13: a registration under a name that has an entry replaces it: lookup
\* returns the object made by this registration, the prior object was released
\* once, the map has the same names, and all other entries are as before.
C13_DuplicateReplaces ==
    (reg_op = "register" /\ reg_err = "none" /\ reg_name \in DOMAIN reg_before[reg_cat]) =>
        LET now == lookup_object(Registry, reg_cat, reg_name)
            p == reg_before[reg_cat][reg_name]
        IN  /\ now # 0 /\ origin[now] = reg_calls /\ released[now] = 0
            /\ p # 0 => (released[p] = 1 /\ released_before[p] = 0)
            /\ \A o \in ObjIds \ {p} : released[o] = released_before[o]
            /\ DOMAIN reg[reg_cat] = DOMAIN reg_before[reg_cat]
            /\ OthersKept(reg_cat, reg_name)

\* A weighting scheme registered over one registered before under the same name.
C13_Witness ==
    /\ reg_op = "register" /\ reg_err = "none" /\ reg_cat = "wtschemes" /\ reg_name = "a"
    /\ "a" \in DOMAIN reg_before["wtschemes"] /\ reg_before["wtschemes"]["a"] # 0
    /\ reg["wtschemes"]["a"] # reg_before["wtschemes"]["a"]

\* C14: a registration of an object with an empty name throws
\* InvalidOperationError and leaves the maps and every object as they were.
C14_EmptyNameRejected ==
    (reg_op = "register" /\ reg_name = "") =>
        /\ reg_err = "InvalidOperationError"
        /\ reg = reg_before
        /\ released = released_before

\* An empty name rejected by a registry that holds user registrations.
C14_Witness ==
    /\ reg_op = "register" /\ reg_name = "" /\ reg_err = "InvalidOperationError"
    /\ "a" \in DOMAIN reg["wtschemes"] /\ reg["wtschemes"]["a"] # 0

\* The object that the last successful registration under the name made, the
\* built-in if there was none, NULL if the name was never registered.
LatestObject(cat, name) ==
    IF name \in DOMAIN latest[cat]
    THEN CHOOSE o \in ObjIds :
            IF latest[cat][name] = 0 THEN o = BuiltinId(cat)
            ELSE origin[o] = latest[cat][name]
    ELSE 0

\* C15 as stated: lookup returns the object of the last successful registration
\* under the name (the built-in if there was none), NULL for a name without
\* entry, and changes nothing.
C15_LookupLatestSuccessful ==
    reg_op = "lookup" =>
        /\ reg_result = LatestObject(reg_cat, reg_name)
        /\ reg = reg_before /\ released = released_before

\* C15 amended: as stated, except that lookup returns NULL for a name whose
\* last registration failed because clone() returned NULL; an object returned
\* has not been released.
C15_LookupLatestUnlessNulled ==
    reg_op = "lookup" =>
        /\ reg_result = IF reg_name \in nulled[reg_cat] THEN 0
                        ELSE LatestObject(reg_cat, reg_name)
        /\ reg_result # 0 => released[reg_result] = 0
        /\ reg = reg_before /\ released = released_before

\* A lookup that returns the object of the second of two registrations under
\* one name.
C15_Witness ==
    /\ reg_op = "lookup" /\ reg_cat = "wtschemes" /\ reg_name = "b"
    /\ reg_result # 0 /\ origin[reg_result] = 2 /\ released[BuiltinId("wtschemes")] = 1

----------------------------------------------------------------------------
(* Properties of OmWritableDatabase                                         *)

\* C16: an assignment from an OmDatabase goes on to store the pointer only if
\* the source is writable; otherwise it throws InvalidArgumentError, leaves
\* every handle's pointer as it was, and holds no mutex when it has thrown.
C16_AssignOnlyFromWritable ==
    /\ [](\A t \in Threads : th[t].err = "InvalidArgumentError" => Holds(t) = {})
    /\ [][\A t \in Threads :
            /\ AssignCheck(t) =>
                  IF is_writable(th[t].src)
                  THEN th'[t].pc = "a_lock" /\ th'[t].err = "none"
                  ELSE /\ th'[t].pc = "idle"
                       /\ th'[t].err = "InvalidArgumentError"
                       /\ mydb' = mydb /\ mutex' = mutex
            /\ (AssignStore(t) /\ th[t].op = "assign") => mydb[th[t].src] # "ro"]_vars

\* The assignment w1 = r has thrown while the other thread holds w1's mutex.
C16_Witness ==
    /\ th["t1"].op = "assign" /\ th["t1"].h = "w1" /\ th["t1"].src = "r"
    /\ th["t1"].pc = "idle" /\ th["t1"].err = "InvalidArgumentError"
    /\ mutex["w1"] = "t2" /\ mydb["w1"] = "db1"

\* C17: a thread inside a database call made by one of the ten operations
\* holds no mutex; a thread holds a handle's mutex only from the lock to the
\* end of the copy of the pointer (or of the store, in an assignment).
C17_NoMutexAcrossCall ==
    \A t \in Threads :
        /\ th[t].pc \in {"call", "in_call"} => Holds(t) = {}
        /\ Holds(t) # {} => /\ Holds(t) = {th[t].h}
                            /\ th[t].pc \in {"copy", "unlock", "a_read", "a_store",
                                            "a_unlock"}

\* One thread is inside get_document's database call on w1 while the other
\* has taken w1's mutex for an assignment.
C17_Witness ==
    /\ th["t1"].pc = "in_call" /\ th["t1"].op = "get_document" /\ th["t1"].h = "w1"
    /\ th["t2"].pc = "a_store" /\ th["t2"].h = "w1" /\ mutex["w1"] = "t2"

\* What the rounding of the model's arithmetic may add to a weight: a weight
\* goes through fewer than sixteen rounded operations of at most a few units.
Rounding == Scale \div 64

\* C18: after init() with a non-zero factor, get_sumpart(wdf, doclen) is at
\* most get_maxpart(), for every wdf in [0, wdf_upper_bound] and every doclen
\* in [doclength_lower_bound, doclength_upper_bound] with wdf <= doclen.  A
\* weight above the bound by no more than the rounding is let through.
C18_MaxpartBoundsSumpart ==
    (/\ pl2_call.op = "get_sumpart"
     /\ pl2_wt.inited
     /\ pl2_call.wdf <= pl2_stats.wdf_upper_bound
     /\ pl2_call.wdf <= pl2_call.len
     /\ pl2_call.len >= pl2_stats.doclength_lower_bound
     /\ pl2_call.len <= pl2_stats.doclength_upper_bound)
    => pl2_call.result <= get_maxpart(pl2_wt) + Rounding

\* The two parameters read back from a serialised form, and where they end.
Decoded(bytes) ==
    LET c == unserialise_double(bytes, 1)
        delta == unserialise_double(bytes, c.ptr)
    IN  [ok |-> c.err = "none" /\ delta.err = "none", c |-> c.v, delta |-> delta.v,
         ptr |-> delta.ptr]

\* C19: unserialise(serialise(s)) of a scheme with valid parameters returns a
\* scheme with the same c and the same delta, and serialise(s) is the encoding
\* of c followed by the encoding of delta and nothing else.
C19_RoundTrip ==
    /\ pl2_call.op = "round_trip" =>
            /\ pl2_call.err = "none"
            /\ pl2_call.result.param_c = pl2_wt.param_c
            /\ pl2_call.result.param_delta = pl2_wt.param_delta
    /\ pl2_call.op = "serialise" =>
            /\ Decoded(pl2_call.result).ok
            /\ Decoded(pl2_call.result).c = pl2_wt.param_c
            /\ Decoded(pl2_call.result).delta = pl2_wt.param_delta
            /\ Decoded(pl2_call.result).ptr = Len(pl2_call.result) + 1

\* The scheme with c = 0.5 and delta = 0.8 came back from the round trip.
C19_Witness ==
    /\ pl2_call.op = "round_trip"
    /\ pl2_wt.param_c = Half /\ pl2_wt.param_delta = (4 * Scale) \div 5
    /\ pl2_call.err = "none"
    /\ pl2_call.result.param_c = Half

\* C20: unserialise() of an input that holds two encoded parameters and then
\* more bytes throws SerialisationError and returns no scheme, whatever the
\* two parameters are.
C20_TrailingBytesRejected ==
    (/\ pl2_call.op = "unserialise"
     /\ Decoded(pl2_call.input).ok
     /\ Decoded(pl2_call.input).ptr <= Len(pl2_call.input))
    => /\ pl2_call.err = "SerialisationError"
       /\ pl2_call.result = "none"

\* The serialised form of (c = 2, delta = 1) followed by two bytes was refused.
C20_Witness ==
    /\ pl2_call.op = "unserialise"
    /\ pl2_call.input = Whole(2 * Scale, Scale) \o <<1, 7>>
    /\ pl2_call.err = "SerialisationError"
    /\ pl2_call.result = "none"

\* The term of the statistics at hand is non-discriminative.
NonDiscriminative ==
    \/ pl2_stats.wdf_upper_bound = 0
    \/ pl2_stats.collection_freq > pl2_stats.collection_size

\* C21: after init() with a non-zero factor on a term with wdf_upper_bound = 0
\* or collection_freq > collection_size, get_sumpart() returns 0 for every
\* document and get_maxpart() returns 0; and get_sumpart() returns 0 for
\* wdf = 0 whatever the term.
C21_NonDiscriminativeIsZero ==
    /\ (pl2_wt.inited /\ NonDiscriminative /\ pl2_call.op \in {"get_sumpart", "get_maxpart"})
            => pl2_call.result = 0
    /\ (pl2_wt.inited /\ pl2_call.op = "get_sumpart" /\ pl2_call.wdf = 0)
            => pl2_call.result = 0

\* A document of length 2 holding the term once got weight 0, the term
\* occurring more often than there are documents.
C21_Witness ==
    /\ pl2_wt.inited /\ pl2_wt.factor # 0
    /\ pl2_stats.collection_freq > pl2_stats.collection_size
    /\ pl2_call.op = "get_sumpart" /\ pl2_call.wdf = 1 /\ pl2_call.len = 2
    /\ pl2_call.result = 0

\* A scheme whose parameters are both > 0.
ValidScheme(w) == w.param_c > 0 /\ w.param_delta > 0

\* The two numbers of a parameter text that holds two numbers and no more.
TwoNumbers(text) ==
    LET c == double_param(text, 1)
        delta == double_param(text, c.p)
    IN  [ok |-> c.ok /\ delta.ok /\ delta.p = Len(text) + 1, c |-> c.v, delta |-> delta.v]

\* C22: the constructor called with c <= 0 or delta <= 0 throws
\* InvalidArgumentError and leaves no scheme, be it called directly, by
\* unserialise() on the encoding of two such parameters, or by
\* create_from_parameters() on a text of two such numbers; so the scheme at
\* hand and every scheme returned has c > 0 and delta > 0.
C22_BadParametersRejected ==
    /\ ValidScheme(pl2_wt)
    /\ pl2_call.op \in {"construct", "unserialise", "round_trip", "create_from_parameters"}
            => IF pl2_call.err = "none" THEN ValidScheme(pl2_call.result)
               ELSE pl2_call.result = "none"
    /\ (pl2_call.op = "construct" /\ (pl2_call.input[1] <= 0 \/ pl2_call.input[2] <= 0))
            => pl2_call.err = "InvalidArgumentError" /\ pl2_call.result = "none"
    /\ (/\ pl2_call.op = "unserialise"
        /\ Decoded(pl2_call.input).ok
        /\ Decoded(pl2_call.input).ptr = Len(pl2_call.input) + 1
        /\ (Decoded(pl2_call.input).c <= 0 \/ Decoded(pl2_call.input).delta <= 0))
            => pl2_call.err = "InvalidArgumentError" /\ pl2_call.result = "none"
    /\ (/\ pl2_call.op = "create_from_parameters"
        /\ TwoNumbers(pl2_call.input).ok
        /\ (TwoNumbers(pl2_call.input).c <= 0 \/ TwoNumbers(pl2_call.input).delta <= 0))
            => pl2_call.err = "InvalidArgumentError" /\ pl2_call.result = "none"

\* create_from_parameters("2 -0.5") was refused for its delta.
C22_Witness ==
    /\ pl2_call.op = "create_from_parameters"
    /\ pl2_call.input = <<"2", " ", "-", "0", ".", "5">>
    /\ TwoNumbers(pl2_call.input).ok
    /\ TwoNumbers(pl2_call.input).delta = -Half
    /\ pl2_call.err = "InvalidArgumentError"
    /\ pl2_call.result = "none"

\* C23: when next() or skip_to() has returned with the node not at end, did is
\* not 0 and every child is positioned on did.
C23_ChildrenOnDid ==
    (pc = "idle" /\ started /\ ~at_end) =>
        /\ did # 0
        /\ \A n \in Kids : /\ ~plist[n].at_end
                            /\ plist[n].valid
                            /\ plist[n].did = did

\* A skip_to() left three children on document 2, which was not the first
\* document of every child.
C23_Witness ==
    /\ pc = "idle" /\ last_call = "skip_to" /\ did = 2 /\ n_kids = 3
    /\ \A n \in Kids : plist[n].did = 2
    /\ \E n \in Kids : 1 \in plist[n].docs

\* C24: in the scan for the next match, for child i >= 1 checked against the
\* candidate d of child 0: a check that is not valid advances child 0 with
\* next and restarts the scan; a valid check that leaves child i at end puts
\* the node at end (docid 0); a valid check that leaves child i on another
\* docid skips child 0 to that docid and restarts the scan; otherwise the
\* scan goes on to child i + 1.  Between calls, a node that has been moved
\* is at end exactly when did = 0, and then child 0 or a validly checked
\* child is at end.
C24_ScanProtocol ==
    /\ []((pc = "idle" /\ started /\ at_end) =>
            /\ did = 0
            /\ \E n \in Kids : plist[n].at_end /\ plist[n].valid)
    /\ [][(pc = "loop" /\ scan_i < n_kids) =>
            LET kid == plist'[scan_i]
            IN  /\ scan_i >= 1
                /\ did = plist[0].did
                /\ IF ~kid.valid
                   THEN /\ plist'[0] = KidNext(plist[0], new_min(w_min, 0))
                        /\ pc' = "advanced_plist0"
                   ELSE IF kid.at_end
                   THEN /\ did' = 0 /\ pc' = "idle"
                        /\ plist'[0] = plist[0]
                   ELSE IF kid.did # did
                   THEN /\ plist'[0] = KidSkipTo(plist[0], kid.did, new_min(w_min, 0))
                        /\ plist'[0].at_end \/ plist'[0].did >= kid.did
                        /\ pc' = "advanced_plist0"
                   ELSE /\ plist'[0] = plist[0]
                        /\ pc' = "loop" /\ scan_i' = scan_i + 1 /\ did' = did]_vars

\* A check of child 2 was not valid, child 0 went on past the candidate and
\* the scan is about to restart.
C24_Witness ==
    /\ pc = "advanced_plist0" /\ n_kids = 3
    /\ plist[1].valid /\ plist[1].did = did
    /\ ~plist[2].valid /\ plist[2].did = did
    /\ plist[0].did > did

\* The cursor is not at end, on a key with the first byte of key.
NearKey(c, key) == ~c.is_at_end /\ c.last_key # <<>> /\ c.last_key[1] = key[1]

\* Where a cursor is: file position, keys, pending value size, at end or not.
Position(c) ==
    [pos |-> c.pos, current_key |-> c.current_key, last_key |-> c.last_key,
     val_size |-> c.val_size, is_at_end |-> c.is_at_end, err |-> c.err]

\* C25: a find(key) made with the cursor not at end on a key that has key's
\* first byte and sorts before key returns what the same find returns when
\* made through the index from a rewound cursor, and leaves the cursor in the
\* same position; a find(key) made with the cursor on key returns true and
\* does not move the cursor.
C25_ForwardFindEqualsIndexFind ==
    [][\A key \in FindKeys :
         (op' = "find" /\ arg' = key /\ NearKey(cursor, key)) =>
            /\ Compare(cursor.last_key, key) < 0 =>
                  /\ ret' = do_find(fh, rewind(cursor), key, FALSE).ret
                  /\ Position(cursor') = Position(do_find(fh, rewind(cursor), key, FALSE).c)
            /\ Compare(cursor.last_key, key) = 0 =>
                  /\ ret'
                  /\ cursor' = [cursor EXCEPT !.current_key = key]]_vars

\* A find stepped from the first key of a table over the second to the third,
\* all three sharing their first byte.
C25_Witness ==
    /\ op = "find" /\ ret /\ Len(table) = 3
    /\ pre_key = table[1] /\ arg = table[3] /\ cursor.current_key = table[3]
    /\ table[1][1] = table[3][1]

\* C26: a destroyed AND node has destroyed each of its children exactly once,
\* the last child first and the first child last, and has then freed its
\* child array and its max-weight array.
C26_DestroysInReverse ==
    freed # <<>> =>
        /\ deleted = [i \in 1..n_kids |-> n_kids - i]
        /\ freed = <<"plist", "max_wt">>

\* The least docid >= lo that every child holds, 0 if there is none.
LeastCommonFrom(lo) ==
    LET c == {d \in CommonDocs : d >= lo}
    IN  IF c = {} THEN 0 ELSE CHOOSE d \in c : \A e \in c : d <= e

\* C27 as stated: skip_to(did_min) leaves the node on the least docid >=
\* did_min that every child holds, at end if there is none; the docid is not
\* below did_min and not below the docid the node was on.
C27_SkipToLeastFromMin ==
    (pc = "idle" /\ last_call = "skip_to") =>
        /\ did = LeastCommonFrom(last_min)
        /\ did # 0 => did >= last_min /\ did >= prev_did

\* C27 amended: skip_to(did_min) leaves the node on the least docid that
\* every child holds and that is neither below did_min nor below the docid
\* the node was on, at end if there is none.
C27_SkipToLeastForward ==
    (pc = "idle" /\ last_call = "skip_to") =>
        /\ did = LeastCommonFrom(Max(last_min, prev_did))
        /\ did # 0 => did >= last_min /\ did >= prev_did

\* skip_to(2) went to document 3: document 2 is not in every child, and the
\* common document 1 lies below did_min.
C27_Witness ==
    /\ pc = "idle" /\ last_call = "skip_to" /\ last_min = 2 /\ did = 3
    /\ n_kids = 3 /\ 1 \in CommonDocs /\ 2 \notin CommonDocs

\* C28: every next() or skip_to() call terminates.  Each restart of the scan
\* (from the for loop back to advanced_plist0) has moved child 0 strictly
\* forward or to its end; a call that has started returns; and it returns
\* with every child on the node's docid or with the node at end.
C28_ScanTerminates ==
    /\ [][(pc = "loop" /\ pc' = "advanced_plist0") =>
              (plist'[0].at_end \/ plist'[0].did > plist[0].did)]_vars
    /\ (pc # "idle") ~> (pc = "idle")
    /\ []((pc = "idle" /\ started) =>
              (at_end \/ \A n \in Kids : plist[n].valid /\ plist[n].did = did))

\* The scan has restarted: child 1 was found past the candidate, child 0 has
\* been moved up to it and the scan is back at advanced_plist0.
C28_Witness ==
    /\ pc = "advanced_plist0" /\ did # 0 /\ ~plist[0].at_end
    /\ \E n \in Kids \ {0} : plist[n].valid /\ plist[n].did > did
                             /\ plist[0].did >= plist[n].did

\* C29: while a thread is in the database call of an operation, through the
\* pointer it copied under the mutex, that database has not been destroyed:
\* some reference to it is left, whatever another thread assigns to the
\* handle meanwhile.
C29_CalledDatabaseReferenced ==
    \A t \in Threads :
        (th[t].op \in Operations /\ th[t].pc \in {"call", "in_call"}) =>
            th[t].database \notin destroyed

\* A thread waits for a mutex.
Waiting(t) == th[t].pc \in {"lock", "a_lock"}

Landing(r) ==
    [ret |-> r.ret, key |-> r.c.current_key, last_key |-> r.c.last_key,
     val_size |-> r.c.val_size, compressed |-> r.ret /\ r.c.current_compressed,
     is_at_end |-> r.c.is_at_end, pos |-> r.c.pos, err |-> r.c.err]

\* C31: a next() made from an entry lands where a next() made after
\* read_tag(true) or after read_tag(false) on that entry lands: same key,
\* same value size and compressed flag, same offset, same result.
C31_NextIgnoresReadTag ==
    [][(CurNext /\ OnEntry(cursor)) =>
          \A keep_compressed \in BOOLEAN :
             LET t == read_tag(fh, cursor, keep_compressed)
             IN  /\ t.c.err = "none"
                 /\ Landing(next(fh, t.c)) = Landing([c |-> cursor', ret |-> ret'])]_vars

\* The value of the first entry, stored compressed, was read and
\* decompressed, and next() has moved on to the second entry, whose value is
\* still unread.
C31_Witness ==
    /\ op = "next" /\ ret /\ Len(table) >= 2 /\ cursor.current_key = table[2]
    /\ IsCompressed(table[1]) /\ cursor.current_tag = Value(table[1])
    /\ cursor.val_size # 0

\* C32: after prev() from an entry with key k, next() returns true and puts
\* the cursor back on k with k's value read by read_tag; after prev() from
\* at end, next() returns false and the cursor is at end again.
C32_PrevThenNext ==
    (op = "prev" /\ cursor.err = "none" /\ (pre_end \/ pre_key # <<>>)) =>
        LET n == next(fh, cursor)
        IN  /\ ret
            /\ n.c.err = "none"
            /\ IF pre_end
               THEN ~n.ret /\ n.c.is_at_end
               ELSE /\ n.ret /\ ~n.c.is_at_end
                    /\ n.c.current_key = pre_key
                    /\ TagRead(n.c) = Value(pre_key)

\* prev() was made on the last of three entries after its compressed value
\* had been read; the entry shares a prefix with the one before it.
C32_Witness ==
    /\ op = "prev" /\ ret /\ Len(table) = 3 /\ pre_key = table[3]
    /\ cursor.current_key = table[2] /\ table[2][1] = table[3][1]
    /\ IsCompressed(table[3]) /\ cursor.current_tag = Value(table[3])

\* The cursor is before the first entry: not at end, with an empty key.
BeforeFirst(c) == ~c.is_at_end /\ c.current_key = <<>>

\* C33: prev() returns false exactly when the cursor is before the first
\* entry, and then leaves the cursor as it was.  prev() on the first entry
\* returns true and leaves the cursor before the first entry, from where
\* prev() returns false and next() lands on the first entry.
C33_PrevAtFirst ==
    [][CurPrev =>
          /\ cursor'.err = "none"
          /\ ~ret' <=> BeforeFirst(cursor)
          /\ ~ret' => cursor' = cursor
          /\ (OnEntry(cursor) /\ cursor.current_key = table[1]) =>
                /\ ret' /\ BeforeFirst(cursor')
                /\ ~prev(fh, cursor').ret
                /\ next(fh, cursor').ret
                /\ next(fh, cursor').c.current_key = table[1]
                /\ ~next(fh, cursor').c.is_at_end]_vars

\* prev() was made on the first of two entries and has left the cursor
\* before it, at the start of the file.
C33_Witness ==
    /\ op = "prev" /\ ret /\ Len(table) = 2 /\ pre_key = table[1] /\ ~pre_end
    /\ BeforeFirst(cursor) /\ cursor.pos = 0 /\ cursor.val_size = 0

\* C34: a registration in a cloned category of an object with a name whose
\* clone() returns NULL throws InvalidOperationError; afterwards lookup of
\* the name returns NULL, an object that was under the name has been released
\* by this call, once, no other object has been released, and the entries
\* under other names and in other categories are as before.
C34_CloneNullLeavesNull ==
    [][\A cat \in ClonedCategories, name \in Names :
          RegRegister(cat, name, TRUE) =>
             LET p == IF name \in DOMAIN reg[cat] THEN reg[cat][name] ELSE 0
                 after == [reg |-> reg', origin |-> origin', released |-> released',
                           next_id |-> next_id']
             IN  /\ reg_err' = "InvalidOperationError"
                 /\ lookup_object(after, cat, name) = 0
                 /\ \A o \in ObjIds :
                       released'[o] = IF o = p THEN released[o] + 1 ELSE released[o]
                 /\ p # 0 => released'[p] = 1
                 /\ \A n \in DOMAIN reg[cat] \ {name} :
                       n \in DOMAIN reg'[cat] /\ reg'[cat][n] = reg[cat][n]
                 /\ DOMAIN reg'[cat] \ {name} = DOMAIN reg[cat] \ {name}
                 /\ \A other \in Categories \ {cat} : reg'[other] = reg[other]]_vars

\* A registration under "a" has failed in clone() and released the scheme a
\* user had registered under "a" before; the built-in under "b" is in place.
C34_Witness ==
    /\ reg_op = "register" /\ reg_cat = "wtschemes" /\ reg_name = "a"
    /\ reg_err = "InvalidOperationError"
    /\ "a" \in DOMAIN reg_before["wtschemes"] /\ reg_before["wtschemes"]["a"] # 0
    /\ reg["wtschemes"]["a"] = 0
    /\ released[reg_before["wtschemes"]["a"]] = 1
    /\ reg["wtschemes"]["b"] = BuiltinId("wtschemes")

\* A term of the document has a name of zero length.
UnnamedTerm(doc) == \E j \in 1..Len(doc) : doc[j] = <<>>

\* C35: add_document with a document that has a term of zero length throws
\* InvalidArgumentError in its first step: no mutex is taken, no handle or
\* database changes and nothing is passed to the database.  With every term
\* named it goes on to the lock, and from the database call on the document
\* has been passed to the database once.
C35_ZeroLengthTermRejected ==
    /\ [](\A t \in Threads :
            th[t].op = "add_document" =>
               /\ th[t].doc \in Documents
               /\ IF UnnamedTerm(th[t].doc)
                  THEN /\ th[t].pc = "idle" /\ th[t].err = "InvalidArgumentError"
                       /\ th[t].passed = <<>> /\ Holds(t) = {}
                  ELSE /\ th[t].pc # "idle" /\ th[t].err = "none"
                       /\ th[t].passed = IF th[t].pc = "in_call"
                                         THEN <<th[t].doc>> ELSE <<>>)
    /\ [][\A t \in Threads :
            (th'[t].op = "add_document" /\ th'[t].err = "InvalidArgumentError"
                /\ th'[t] # th[t]) =>
               /\ th[t].pc = "idle"
               /\ mutex' = mutex /\ mydb' = mydb /\ destroyed' = destroyed]_vars

\* add_document of a document whose second term has no name has thrown on w1
\* while the other thread holds w1's mutex.
C35_Witness ==
    /\ th["t1"].op = "add_document" /\ th["t1"].h = "w1" /\ th["t1"].pc = "idle"
    /\ th["t1"].err = "InvalidArgumentError" /\ th["t1"].doc = <<<<1>>, <<>>>>
    /\ th["t1"].passed = <<>> /\ mutex["w1"] = "t2"

====
